---- MODULE Spec2Model ----
(***************************************************************************)
(* A model of the music language compiler: lexer, parser, semantic         *)
(* analyzer, code generator, the instruction interpreter of the audio      *)
(* synthesizer and the driver MusicCompiler.compile_string.                *)
(*                                                                         *)
(* Conventions.                                                            *)
(*  - Python strings that come from the source text (token values, note    *)
(*    names, instrument names) are sequences of one-character strings.     *)
(*  - Python floats are fixed-point integers in units of 1/Scale: the      *)
(*    number literals of the model carry at most two decimal digits, for   *)
(*    which float() is exact enough that every comparison made by the code *)
(*    has the outcome the exact value gives.                               *)
(*  - Sequence indices are 1-based; the code's 0-based index i is i+1.     *)
(***************************************************************************)
EXTENDS Integers, Sequences, FiniteSets, TLC

VARIABLES
    text,           \* the source text given to MusicLexer
    lexer,          \* the lexer: pos, line, column, tokens
    compiler,       \* compile_string: its position, its locals, its result
    instructions,   \* the list handed to AudioSynthesizer.synthesize
    synth,          \* the synthesizer: registers, loop state, audio_data
    chord,          \* _synthesize_chord: the locals of the mixing of one chord
    runs            \* what the earlier calls of compile_string produced

vars == <<text, lexer, compiler, instructions, synth, chord, runs>>

\* ------------------------------------------------------------------ bounds
MaxInstrs == 5      \* longest instruction list drawn for the interpreter
MaxTimes == 2       \* largest REPEAT_START operand drawn for the interpreter
MaxFrags == 4       \* most fragments a source text of the lexer is made of
MaxStmts == 4       \* most fragments a source text of the compiler is made of

\* --------------------------------------------------------------- numbers
Scale == 100        \* fixed-point unit: a float x is the integer x * Scale

Max(a, b) == IF a >= b THEN a ELSE b
Min(a, b) == IF a <= b THEN a ELSE b

\* floor(a * b / c) for a, b >= 0 and c > 0, staged so that no intermediate
\* product leaves the 32-bit range
FloorMulDiv(a, b, c) == (a \div c) * b + ((a % c) * b) \div c

\* int(x) of a fixed-point x: truncation toward zero
IntOf(x) == IF x >= 0 THEN x \div Scale ELSE -((-x) \div Scale)

\* ------------------------------------------------------- note frequencies
Digits == <<"0", "1", "2", "3", "4", "5", "6", "7", "8", "9">>

\* the list `notes` of _generate_note_frequencies
ChromaticNotes ==
    << <<"C">>, <<"C", "#">>, <<"D">>, <<"D", "#">>, <<"E">>, <<"F">>,
       <<"F", "#">>, <<"G">>, <<"G", "#">>, <<"A">>, <<"A", "#">>, <<"B">> >>

\* semitones_from_a4; the frequency 440 * 2^(k/12) is one-to-one in k, so the
\* table maps a note name to k
SemitonesFromA4(octave, i) == (octave - 4) * 12 + (i - 9)

\* the entries one pass of the inner loop adds (i is the 0-based enumerate index)
FrequencyEntries(octave, i) ==
    LET note == ChromaticNotes[i + 1]
        k == SemitonesFromA4(octave, i)
        sharp == << note \o <<Digits[octave + 1]>>, k >>
    IN  IF \E j \in 1..Len(note) : note[j] = "#"
        THEN { sharp,
               << (<<ChromaticNotes[((i + 1) % 12) + 1][1]>> \o <<"b">>)
                      \o <<Digits[octave + 1]>>, k >> }
        ELSE { sharp }

AllFrequencyEntries ==
    UNION { FrequencyEntries(octave, i) : octave \in 0..8, i \in 0..11 }

\* self.note_frequencies
note_frequencies ==
    [ name \in { e[1] : e \in AllFrequencyEntries } |->
        (CHOOSE e \in AllFrequencyEntries : e[1] = name)[2] ]

\* ------------------------------------------------------------------ lexer
UpperLetters ==
    {"A", "B", "C", "D", "E", "F", "G", "H", "I", "J", "K", "L", "M",
     "N", "O", "P", "Q", "R", "S", "T", "U", "V", "W", "X", "Y", "Z"}
LowerLetters ==
    {"a", "b", "c", "d", "e", "f", "g", "h", "i", "j", "k", "l", "m",
     "n", "o", "p", "q", "r", "s", "t", "u", "v", "w", "x", "y", "z"}
DigitChars == { Digits[k] : k \in 1..10 }
\* \w and \s of the re module
WordChars == UpperLetters \cup LowerLetters \cup DigitChars \cup {"_"}
SpaceChars == {" ", "\t", "\n", "\r", "\f"}

Token(type, value, line, column) ==
    [type |-> type, value |-> value, line |-> line, column |-> column]

\* self.token_patterns, in order; type "None" marks the skipped patterns
token_patterns ==
    << [re |-> "comment", type |-> "None", lit |-> <<>>],
       [re |-> "newline", type |-> "NEWLINE", lit |-> <<>>],
       [re |-> "space", type |-> "None", lit |-> <<>>],
       [re |-> "keyword", type |-> "PLAY", lit |-> <<"P", "L", "A", "Y">>],
       [re |-> "keyword", type |-> "TEMPO", lit |-> <<"T", "E", "M", "P", "O">>],
       [re |-> "keyword", type |-> "VOLUME", lit |-> <<"V", "O", "L", "U", "M", "E">>],
       [re |-> "keyword", type |-> "INSTRUMENT",
            lit |-> <<"I", "N", "S", "T", "R", "U", "M", "E", "N", "T">>],
       [re |-> "keyword", type |-> "DURATION",
            lit |-> <<"D", "U", "R", "A", "T", "I", "O", "N">>],
       [re |-> "keyword", type |-> "REPEAT", lit |-> <<"R", "E", "P", "E", "A", "T">>],
       [re |-> "keyword", type |-> "CHORD", lit |-> <<"C", "H", "O", "R", "D">>],
       [re |-> "keyword", type |-> "REST", lit |-> <<"R", "E", "S", "T">>],
       [re |-> "note", type |-> "NOTE", lit |-> <<>>],
       [re |-> "number", type |-> "NUMBER", lit |-> <<>>],
       [re |-> "string", type |-> "STRING", lit |-> <<>>],
       [re |-> "char", type |-> "EQUALS", lit |-> <<"=">>],
       [re |-> "char", type |-> "SEMICOLON", lit |-> <<";">>],
       [re |-> "char", type |-> "COMMA", lit |-> <<",">>],
       [re |-> "char", type |-> "LPAREN", lit |-> <<"(">>],
       [re |-> "char", type |-> "RPAREN", lit |-> <<")">>],
       [re |-> "char", type |-> "LBRACE", lit |-> <<"{">>],
       [re |-> "char", type |-> "RBRACE", lit |-> <<"}">>],
       [re |-> "char", type |-> "LBRACKET", lit |-> <<"[">>],
       [re |-> "char", type |-> "RBRACKET", lit |-> <<"]">>] >>

\* positions are 1-based: p is the code's pos + 1
IsWordAt(txt, q) == q >= 1 /\ q <= Len(txt) /\ txt[q] \in WordChars
IsDigitAt(txt, q) == q >= 1 /\ q <= Len(txt) /\ txt[q] \in DigitChars

\* \b between the characters q-1 and q
WordBoundary(txt, q) == IsWordAt(txt, q - 1) # IsWordAt(txt, q)

\* the first index >= q whose character is not in S (Len + 1 if none)
RECURSIVE RunEnd(_, _, _)
RunEnd(txt, q, S) ==
    IF q <= Len(txt) /\ txt[q] \in S THEN RunEnd(txt, q + 1, S) ELSE q

\* the first index >= q whose character is c (0 if none)
RECURSIVE FindChar(_, _, _)
FindChar(txt, q, c) ==
    IF q > Len(txt) THEN 0
    ELSE IF txt[q] = c THEN q ELSE FindChar(txt, q + 1, c)

HasLiteral(txt, p, lit) ==
    /\ p + Len(lit) - 1 <= Len(txt)
    /\ \A k \in 1..Len(lit) : txt[p + k - 1] = lit[k]

\* regex.match(text, pos) for one pattern: the index after the match, or 0
MatchEnd(pat, txt, p) ==
    CASE pat.re = "char" -> IF txt[p] = pat.lit[1] THEN p + 1 ELSE 0
      [] pat.re = "keyword" ->           \* \bKEYWORD\b
            IF /\ HasLiteral(txt, p, pat.lit)
               /\ WordBoundary(txt, p)
               /\ WordBoundary(txt, p + Len(pat.lit))
            THEN p + Len(pat.lit) ELSE 0
      [] pat.re = "comment" ->           \* #.*  ('.' stops at a newline)
            IF txt[p] = "#"
            THEN (LET nl == FindChar(txt, p + 1, "\n")
                  IN  IF nl = 0 THEN Len(txt) + 1 ELSE nl)
            ELSE 0
      [] pat.re = "newline" -> IF txt[p] = "\n" THEN p + 1 ELSE 0
      [] pat.re = "space" ->             \* \s+
            IF txt[p] \in SpaceChars THEN RunEnd(txt, p, SpaceChars) ELSE 0
      [] pat.re = "note" ->              \* \b[A-G][#b]?[0-9]\b
            IF WordBoundary(txt, p) /\ txt[p] \in {"A", "B", "C", "D", "E", "F", "G"}
            THEN IF /\ p + 1 <= Len(txt) /\ txt[p + 1] \in {"#", "b"}
                    /\ IsDigitAt(txt, p + 2) /\ WordBoundary(txt, p + 3)
                 THEN p + 3
                 ELSE IF IsDigitAt(txt, p + 1) /\ WordBoundary(txt, p + 2)
                 THEN p + 2 ELSE 0
            ELSE 0
      [] pat.re = "number" ->            \* \d+(\.\d+)?
            IF txt[p] \in DigitChars
            THEN (LET q == RunEnd(txt, p, DigitChars)
                  IN  IF q <= Len(txt) /\ txt[q] = "." /\ IsDigitAt(txt, q + 1)
                      THEN RunEnd(txt, q + 1, DigitChars) ELSE q)
            ELSE 0
      [] pat.re = "string" ->            \* "[^"]*"
            IF txt[p] = "\""
            THEN (LET q == FindChar(txt, p + 1, "\"")
                  IN  IF q = 0 THEN 0 ELSE q + 1)
            ELSE 0

\* the loop 'for pattern, token_type in self.token_patterns': the index of
\* the first pattern from the k-th on that matches at p (0 if none)
RECURSIVE FirstPatternFrom(_, _, _)
FirstPatternFrom(txt, p, k) ==
    IF k > Len(token_patterns) THEN 0
    ELSE IF MatchEnd(token_patterns[k], txt, p) > 0 THEN k
    ELSE FirstPatternFrom(txt, p, k + 1)

FirstPattern(txt, p) == FirstPatternFrom(txt, p, 1)

\* value.count('\n')
CountNewlines(value) == Cardinality({ k \in 1..Len(value) : value[k] = "\n" })

\* len(value.split('\n')[-1])
LastLineLen(value) ==
    LET nls == { k \in 1..Len(value) : value[k] = "\n" }
    IN  IF nls = {} THEN Len(value)
        ELSE Len(value) - (CHOOSE k \in nls : \A j \in nls : j <= k)

\* MusicLexer.__init__
LexStart ==
    [pos |-> 1, line |-> 1, column |-> 1, tokens |-> <<>>, status |-> "scan",
     error |-> [char |-> "", line |-> 0, column |-> 0]]

\* how line and column move over a matched value of the given token type
AdvancePosition(lx, type, value) ==
    IF type # "None"
    THEN IF type = "NEWLINE"
         THEN [lx EXCEPT !.line = @ + 1, !.column = 1]
         ELSE [lx EXCEPT !.column = @ + Len(value)]
    ELSE IF CountNewlines(value) > 0
         THEN [lx EXCEPT !.line = @ + CountNewlines(value),
                         !.column = LastLineLen(value) + 1]
         ELSE [lx EXCEPT !.column = @ + Len(value)]

\* one pass of the while loop of tokenize
LexStep(lx, txt) ==
    LET k == FirstPattern(txt, lx.pos)
    IN  IF k = 0
        THEN [lx EXCEPT !.status = "error",
                        !.error = [char |-> txt[lx.pos], line |-> lx.line,
                                   column |-> lx.column]]
        ELSE LET pat == token_patterns[k]
                 e == MatchEnd(pat, txt, lx.pos)
                 value == SubSeq(txt, lx.pos, e - 1)
                 emitted == IF pat.type # "None"
                            THEN [lx EXCEPT !.tokens =
                                     Append(@, Token(pat.type, value, lx.line, lx.column))]
                            ELSE lx
             IN  [AdvancePosition(emitted, pat.type, value) EXCEPT !.pos = e]

\* after the loop: the EOF token is appended and the list returned
LexFinish(lx) ==
    [lx EXCEPT !.tokens = Append(@, Token("EOF", <<>>, lx.line, lx.column)),
               !.status = "done"]

RECURSIVE RunTokenize(_, _)
RunTokenize(lx, txt) ==
    IF lx.status # "scan" THEN lx
    ELSE IF lx.pos > Len(txt) THEN LexFinish(lx)
    ELSE RunTokenize(LexStep(lx, txt), txt)

\* ----------------------------------------------------------------- parser
\* float(token.value) of a NUMBER token, in fixed point; the literals of the
\* model have at most two decimal digits
DigitValue(c) == CHOOSE k \in 0..9 : Digits[k + 1] = c

RECURSIVE DecimalValue(_, _)
DecimalValue(chars, acc) ==
    IF chars = <<>> THEN acc
    ELSE DecimalValue(Tail(chars), acc * 10 + DigitValue(Head(chars)))

FloatOf(chars) ==
    LET dot == FindChar(chars, 1, ".")
        whole == IF dot = 0 THEN chars ELSE SubSeq(chars, 1, dot - 1)
        frac == IF dot = 0 THEN <<>> ELSE SubSeq(chars, dot + 1, Len(chars))
        f1 == IF Len(frac) >= 1 THEN DigitValue(frac[1]) ELSE 0
        f2 == IF Len(frac) >= 2 THEN DigitValue(frac[2]) ELSE 0
    IN  DecimalValue(whole, 0) * Scale + f1 * (Scale \div 10) + f2 * (Scale \div 100)

\* value.strip('"\'')
RECURSIVE StripLeft(_, _)
StripLeft(chars, S) ==
    IF chars # <<>> /\ Head(chars) \in S THEN StripLeft(Tail(chars), S) ELSE chars

RECURSIVE StripRight(_, _)
StripRight(chars, S) ==
    IF chars # <<>> /\ chars[Len(chars)] \in S
    THEN StripRight(SubSeq(chars, 1, Len(chars) - 1), S) ELSE chars

Strip(chars, S) == StripRight(StripLeft(chars, S), S)

\* the AST nodes, as the dataclasses declare them: none has a line or column
\* field; an Optional[float] is <<>> (None) or <<value>>
Program(statements) == [kind |-> "Program", statements |-> statements]
PlayStatement(notes, duration) ==
    [kind |-> "PlayStatement", notes |-> notes, duration |-> duration]
TempoStatement(bpm) == [kind |-> "TempoStatement", bpm |-> bpm]
VolumeStatement(level) == [kind |-> "VolumeStatement", level |-> level]
InstrumentStatement(name) == [kind |-> "InstrumentStatement", name |-> name]
ChordStatement(notes, duration) ==
    [kind |-> "ChordStatement", notes |-> notes, duration |-> duration]
RestStatement(duration) == [kind |-> "RestStatement", duration |-> duration]
RepeatStatement(times, statements) ==
    [kind |-> "RepeatStatement", times |-> times, statements |-> statements]

NoNode == [kind |-> "None"]
NoError == [message |-> "", token |-> Token("None", <<>>, 0, 0)]

\* what a parse function leaves: the position reached and the node built, or
\* the ParseError raised
Parsed(pos, node) == [ok |-> TRUE, pos |-> pos, node |-> node, error |-> NoError]
Raised(pos, message, token) ==
    [ok |-> FALSE, pos |-> pos, node |-> NoNode,
     error |-> [message |-> message, token |-> token]]

\* advance: the position moves unless it is on the last token
advance(tokens, pos) == IF pos < Len(tokens) THEN pos + 1 ELSE pos

\* expect, for each type of a list in turn; the node of the result is the
\* list of the tokens consumed
RECURSIVE ExpectAll(_, _, _, _)
ExpectAll(tokens, pos, types, got) ==
    IF types = <<>> THEN Parsed(pos, got)
    ELSE IF tokens[pos].type # Head(types)
    THEN Raised(pos, "Expected " \o Head(types), tokens[pos])
    ELSE ExpectAll(tokens, advance(tokens, pos), Tail(types), Append(got, tokens[pos]))

expect(tokens, pos, types) == ExpectAll(tokens, pos, types, <<>>)

RECURSIVE skip_newlines(_, _)
skip_newlines(tokens, pos) ==
    IF tokens[pos].type = "NEWLINE" /\ pos < Len(tokens)
    THEN skip_newlines(tokens, pos + 1) ELSE pos

\* the loop over ', note' of parse_play_statement and parse_chord_statement
RECURSIVE MoreNotes(_, _, _, _)
MoreNotes(tokens, pos, notes, message) ==
    IF tokens[pos].type # "COMMA" THEN Parsed(pos, notes)
    ELSE LET q == advance(tokens, pos)
         IN  IF tokens[q].type = "NOTE"
             THEN MoreNotes(tokens, advance(tokens, q), Append(notes, tokens[q].value),
                            message)
             ELSE Raised(q, message, tokens[q])

\* the first note and the ones after it
NoteList(tokens, pos, first_message, more_message) ==
    IF tokens[pos].type = "NOTE"
    THEN MoreNotes(tokens, advance(tokens, pos), <<tokens[pos].value>>, more_message)
    ELSE Raised(pos, first_message, tokens[pos])

\* the optional 'DURATION = number'; the node of the result is the duration
OptionalDuration(tokens, pos) ==
    IF tokens[pos].type # "DURATION" THEN Parsed(pos, <<>>)
    ELSE LET r == expect(tokens, advance(tokens, pos), <<"EQUALS", "NUMBER">>)
         IN  IF r.ok THEN Parsed(r.pos, <<FloatOf(r.node[2].value)>>) ELSE r

parse_play_statement(tokens, pos) ==
    LET a == expect(tokens, pos, <<"PLAY">>)
        n == NoteList(tokens, a.pos, "Expected note after PLAY", "Expected note after comma")
        d == OptionalDuration(tokens, n.pos)
        e == expect(tokens, d.pos, <<"SEMICOLON">>)
    IN  IF ~a.ok THEN a ELSE IF ~n.ok THEN n ELSE IF ~d.ok THEN d ELSE IF ~e.ok THEN e
        ELSE Parsed(e.pos, PlayStatement(n.node, d.node))

parse_tempo_statement(tokens, pos) ==
    LET r == expect(tokens, pos, <<"TEMPO", "EQUALS", "NUMBER", "SEMICOLON">>)
    IN  IF r.ok THEN Parsed(r.pos, TempoStatement(FloatOf(r.node[3].value))) ELSE r

parse_volume_statement(tokens, pos) ==
    LET r == expect(tokens, pos, <<"VOLUME", "EQUALS", "NUMBER", "SEMICOLON">>)
    IN  IF r.ok THEN Parsed(r.pos, VolumeStatement(FloatOf(r.node[3].value))) ELSE r

parse_instrument_statement(tokens, pos) ==
    LET r == expect(tokens, pos, <<"INSTRUMENT", "EQUALS", "STRING", "SEMICOLON">>)
    IN  IF r.ok
        THEN Parsed(r.pos, InstrumentStatement(Strip(r.node[3].value, {"\"", "'"})))
        ELSE r

parse_chord_statement(tokens, pos) ==
    LET a == expect(tokens, pos, <<"CHORD", "LBRACKET">>)
        n == NoteList(tokens, a.pos, "Expected note in chord",
                      "Expected note after comma in chord")
        b == expect(tokens, n.pos, <<"RBRACKET">>)
        d == OptionalDuration(tokens, b.pos)
        e == expect(tokens, d.pos, <<"SEMICOLON">>)
    IN  IF ~a.ok THEN a ELSE IF ~n.ok THEN n ELSE IF ~b.ok THEN b
        ELSE IF ~d.ok THEN d ELSE IF ~e.ok THEN e
        ELSE Parsed(e.pos, ChordStatement(n.node, d.node))

parse_rest_statement(tokens, pos) ==
    LET r == expect(tokens, pos, <<"REST", "EQUALS", "NUMBER", "SEMICOLON">>)
    IN  IF r.ok THEN Parsed(r.pos, RestStatement(FloatOf(r.node[3].value))) ELSE r

RECURSIVE parse_statement(_, _)
RECURSIVE RepeatBody(_, _, _)

\* the while loop of parse_repeat_statement; the node of the result is the
\* list of the statements of the body
RepeatBody(tokens, pos, statements) ==
    IF tokens[pos].type \in {"RBRACE", "EOF"} THEN Parsed(pos, statements)
    ELSE LET q == skip_newlines(tokens, pos)
         IN  IF tokens[q].type = "RBRACE" THEN Parsed(q, statements)
             ELSE LET r == parse_statement(tokens, q)
                  IN  IF r.ok THEN RepeatBody(tokens, r.pos, Append(statements, r.node))
                      ELSE r

parse_repeat_statement(tokens, pos) ==
    LET a == expect(tokens, pos, <<"REPEAT", "NUMBER", "LBRACE">>)
        b == RepeatBody(tokens, a.pos, <<>>)
        e == expect(tokens, b.pos, <<"RBRACE">>)
    IN  IF ~a.ok THEN a ELSE IF ~b.ok THEN b ELSE IF ~e.ok THEN e
        ELSE Parsed(e.pos, RepeatStatement(IntOf(FloatOf(a.node[2].value)), b.node))

parse_statement(tokens, pos) ==
    LET type == tokens[pos].type
    IN  CASE type = "PLAY" -> parse_play_statement(tokens, pos)
          [] type = "TEMPO" -> parse_tempo_statement(tokens, pos)
          [] type = "VOLUME" -> parse_volume_statement(tokens, pos)
          [] type = "INSTRUMENT" -> parse_instrument_statement(tokens, pos)
          [] type = "CHORD" -> parse_chord_statement(tokens, pos)
          [] type = "REST" -> parse_rest_statement(tokens, pos)
          [] type = "REPEAT" -> parse_repeat_statement(tokens, pos)
          [] OTHER -> Raised(pos, "Unexpected token", tokens[pos])

\* a loop of parse that steps over a token no statement begins with
RECURSIVE ParseLoop_skipping(_, _, _)
ParseLoop_skipping(tokens, pos, statements) ==
    IF tokens[pos].type = "EOF" THEN Parsed(pos, Program(statements))
    ELSE LET q == skip_newlines(tokens, pos)
         IN  IF tokens[q].type = "EOF" THEN Parsed(q, Program(statements))
             ELSE IF tokens[q].type \notin
                        {"PLAY", "TEMPO", "VOLUME", "INSTRUMENT", "CHORD", "REST", "REPEAT"}
             THEN ParseLoop_skipping(tokens, advance(tokens, q), statements)
             ELSE LET r == parse_statement(tokens, q)
                  IN  IF r.ok
                      THEN ParseLoop_skipping(tokens, skip_newlines(tokens, r.pos),
                                              Append(statements, r.node))
                      ELSE r

\* the while loop of parse
RECURSIVE ParseLoop(_, _, _)
ParseLoop(tokens, pos, statements) ==
    IF tokens[pos].type = "EOF" THEN Parsed(pos, Program(statements))
    ELSE LET q == skip_newlines(tokens, pos)
         IN  IF tokens[q].type = "EOF" THEN Parsed(q, Program(statements))
             ELSE LET r == parse_statement(tokens, q)
                  IN  IF r.ok
                      THEN ParseLoop(tokens, skip_newlines(tokens, r.pos),
                                     Append(statements, r.node))
                      ELSE r

\* MusicParser(tokens).parse()
parse(tokens) == ParseLoop(tokens, 1, <<>>)

\* ----------------------------------------------------------- symbol table
sine == <<"s", "i", "n", "e">>
square == <<"s", "q", "u", "a", "r", "e">>
triangle == <<"t", "r", "i", "a", "n", "g", "l", "e">>
sawtooth == <<"s", "a", "w", "t", "o", "o", "t", "h">>
piano == <<"p", "i", "a", "n", "o">>

\* self.defaults
defaults ==
    [tempo |-> 120 * Scale, volume |-> Scale \div 2, instrument |-> sine,
     duration |-> 1 * Scale]

Symbol(symbol_type, value) == [type |-> symbol_type, value |-> value]

\* SymbolTable(): self.symbols after the constructor defined every default
NewSymbolTable == [ name \in DOMAIN defaults |-> Symbol("default", defaults[name]) ]

define(symbols, name, symbol_type, value) ==
    [ n \in DOMAIN symbols \cup {name} |->
        IF n = name THEN Symbol(symbol_type, value) ELSE symbols[n] ]

\* a set_value that writes a symbol only while it holds its default
set_value_keep_first(symbols, name, value) ==
    IF name \in DOMAIN symbols /\ name \in DOMAIN defaults
          /\ symbols[name].value # defaults[name]
    THEN symbols
    ELSE IF name \in DOMAIN symbols
    THEN [symbols EXCEPT ![name].value = value]
    ELSE define(symbols, name, "variable", value)

set_value(symbols, name, value) ==
    IF name \in DOMAIN symbols
    THEN [symbols EXCEPT ![name].value = value]
    ELSE define(symbols, name, "variable", value)

get_value(symbols, name, default) ==
    IF name \in DOMAIN symbols THEN symbols[name].value
    ELSE IF name \in DOMAIN defaults THEN defaults[name] ELSE default

\* 'for name, value in self.defaults.items(): self.define(name, 'default', value)'
RECURSIVE DefineDefaults(_, _)
DefineDefaults(symbols, names) ==
    IF names = <<>> THEN symbols
    ELSE DefineDefaults(define(symbols, Head(names), "default", defaults[Head(names)]),
                        Tail(names))

\* self.symbols.clear()
NoSymbols == [ n \in {} |-> Symbol("default", 0) ]

\* a clear that empties the table and defines nothing
clear_only_emptying(symbols) == NoSymbols

\* SymbolTable.clear
clear(symbols) ==
    DefineDefaults(NoSymbols, <<"tempo", "volume", "instrument", "duration">>)

\* ------------------------------------------------------ semantic analyzer
valid_instruments == {sine, square, triangle, sawtooth, piano}

\* note_pattern ^[A-G][#b]?[0-9]$ , then the octave digit within 0..8
is_valid_note(note) ==
    /\ \/ /\ Len(note) = 2
          /\ note[1] \in {"A", "B", "C", "D", "E", "F", "G"}
          /\ note[2] \in DigitChars
       \/ /\ Len(note) = 3
          /\ note[1] \in {"A", "B", "C", "D", "E", "F", "G"}
          /\ note[2] \in {"#", "b"}
          /\ note[3] \in DigitChars
    /\ DigitValue(note[Len(note)]) >= 0
    /\ DigitValue(note[Len(note)]) <= 8

\* SemanticAnalyzer(): a fresh table, no errors; visited counts the
\* statements visit_statement was called on
NewAnalyzer == [symbol_table |-> NewSymbolTable, errors |-> <<>>, visited |-> 0]

\* add_error: the message (its text and the value it cites) is appended
add_error(an, message, value) ==
    [an EXCEPT !.errors = Append(@, <<message, value>>)]

visit_tempo_statement(an, stmt) ==
    IF stmt.bpm <= 0 \/ stmt.bpm > 300 * Scale
    THEN add_error(an, "Invalid tempo", stmt.bpm)
    ELSE [an EXCEPT !.symbol_table = set_value(@, "tempo", stmt.bpm)]

visit_volume_statement(an, stmt) ==
    IF stmt.level < 0 \/ stmt.level > 1 * Scale
    THEN add_error(an, "Invalid volume", stmt.level)
    ELSE [an EXCEPT !.symbol_table = set_value(@, "volume", stmt.level)]

visit_instrument_statement(an, stmt) ==
    IF stmt.name \notin valid_instruments
    THEN add_error(an, "Invalid instrument", stmt.name)
    ELSE [an EXCEPT !.symbol_table = set_value(@, "instrument", stmt.name)]

\* the loop 'for note in notes: if not is_valid_note(note): add_error'
RECURSIVE CheckNotes(_, _, _)
CheckNotes(an, notes, message) ==
    IF notes = <<>> THEN an
    ELSE CheckNotes(IF is_valid_note(Head(notes)) THEN an
                    ELSE add_error(an, message, Head(notes)),
                    Tail(notes), message)

\* 'if duration is not None and duration <= 0: add_error'
CheckDuration(an, duration, message) ==
    IF duration # <<>> /\ duration[1] <= 0
    THEN add_error(an, message, duration[1]) ELSE an

visit_play_statement(an, stmt) ==
    IF stmt.notes = <<>>
    THEN add_error(an, "Play statement must have at least one note", 0)
    ELSE CheckDuration(CheckNotes(an, stmt.notes, "Invalid note"),
                       stmt.duration, "Invalid duration")

visit_chord_statement(an, stmt) ==
    IF Len(stmt.notes) < 2
    THEN add_error(an, "Chord must contain at least 2 notes.", 0)
    ELSE LET a == IF Len(stmt.notes) > 6
                  THEN add_error(an, "Chord cannot contain more than 6 notes.", 0)
                  ELSE an
             b == CheckNotes(a, stmt.notes, "Invalid note in chord")
             c == IF Cardinality({ stmt.notes[k] : k \in 1..Len(stmt.notes) })
                        # Len(stmt.notes)
                  THEN add_error(b, "Chord contains duplicate notes", 0)
                  ELSE b
         IN  CheckDuration(c, stmt.duration, "Invalid chord duration")

visit_rest_statement(an, stmt) ==
    LET a == IF stmt.duration <= 0
             THEN add_error(an, "Invalid rest duration", stmt.duration) ELSE an
    IN  IF stmt.duration > 16 * Scale
        THEN add_error(a, "Rest duration too long", stmt.duration) ELSE a

RECURSIVE visit_statement(_, _)
RECURSIVE VisitAll(_, _)

\* 'for stmt in statements: self.visit_statement(stmt)'
VisitAll(an, statements) ==
    IF statements = <<>> THEN an
    ELSE VisitAll(visit_statement(an, Head(statements)), Tail(statements))

\* a visit_repeat_statement that accepts an empty body
visit_repeat_statement_any_body(an, stmt) ==
    LET a == IF stmt.times <= 0 THEN add_error(an, "Invalid repeat count", stmt.times)
             ELSE IF stmt.times > 100
             THEN add_error(an, "Repeat count too high", stmt.times)
             ELSE an
    IN  VisitAll(a, stmt.statements)

visit_repeat_statement(an, stmt) ==
    LET a == IF stmt.times <= 0 THEN add_error(an, "Invalid repeat count", stmt.times)
             ELSE IF stmt.times > 100
             THEN add_error(an, "Repeat count too high", stmt.times)
             ELSE an
        b == IF stmt.statements = <<>>
             THEN add_error(a, "Repeat block cannot be empty", 0) ELSE a
    IN  VisitAll(b, stmt.statements)

visit_statement(an, stmt) ==
    LET a == [an EXCEPT !.visited = @ + 1]
    IN  CASE stmt.kind = "TempoStatement" -> visit_tempo_statement(a, stmt)
          [] stmt.kind = "VolumeStatement" -> visit_volume_statement(a, stmt)
          [] stmt.kind = "InstrumentStatement" -> visit_instrument_statement(a, stmt)
          [] stmt.kind = "PlayStatement" -> visit_play_statement(a, stmt)
          [] stmt.kind = "ChordStatement" -> visit_chord_statement(a, stmt)
          [] stmt.kind = "RestStatement" -> visit_rest_statement(a, stmt)
          [] stmt.kind = "RepeatStatement" -> visit_repeat_statement(a, stmt)
          [] OTHER -> add_error(a, "Unknown statement type", 0)

\* analyze: the walk, then one SemanticError if any message was recorded;
\* the table is returned only otherwise
analyze(program) ==
    LET an == VisitAll(NewAnalyzer, program.statements)
    IN  [symbol_table |-> an.symbol_table, errors |-> an.errors, visited |-> an.visited,
         raised |-> IF an.errors # <<>> THEN 1 ELSE 0,
         returned |-> an.errors = <<>>]

\* ---------------------------------------------------------- code generator
\* getattr(stmt, name, default)
getattr(stmt, name, default) == IF name \in DOMAIN stmt THEN stmt[name] ELSE default

\* emit
emit(opcode, operands, line, column) ==
    [opcode |-> opcode, operands |-> operands, line |-> line, column |-> column]

\* a duration that is always read from the table
DurationOr_table_only(duration, symbols) == get_value(symbols, "duration", <<>>)

\* 'stmt.duration or self.symbol_table.get_value('duration')': None and 0.0
\* are both false
DurationOr(duration, symbols) ==
    IF duration = <<>> \/ duration[1] = 0
    THEN get_value(symbols, "duration", <<>>) ELSE duration[1]

RECURSIVE GenStatement(_, _)
RECURSIVE GenAll(_, _)

GenAll(statements, symbols) ==
    IF statements = <<>> THEN <<>>
    ELSE GenStatement(Head(statements), symbols) \o GenAll(Tail(statements), symbols)

\* CodeGenerator.visit_statement: the instructions it emits for one statement
GenStatement(stmt, symbols) ==
    LET line == getattr(stmt, "line", 0)
        column == getattr(stmt, "column", 0)
    IN  CASE stmt.kind = "TempoStatement" -> <<emit("SET_TEMPO", <<stmt.bpm>>, line, column)>>
          [] stmt.kind = "VolumeStatement" ->
                <<emit("SET_VOLUME", <<stmt.level>>, line, column)>>
          [] stmt.kind = "InstrumentStatement" ->
                <<emit("SET_INSTRUMENT", <<stmt.name>>, line, column)>>
          [] stmt.kind = "PlayStatement" ->
                [ k \in 1..Len(stmt.notes) |->
                    emit("PLAY_NOTE", <<stmt.notes[k], DurationOr(stmt.duration, symbols)>>,
                         line, column) ]
          [] stmt.kind = "ChordStatement" ->
                <<emit("PLAY_CHORD", <<stmt.notes, DurationOr(stmt.duration, symbols)>>,
                       line, column)>>
          [] stmt.kind = "RestStatement" ->
                <<emit("REST", <<stmt.duration>>, line, column)>>
          [] stmt.kind = "RepeatStatement" ->
                (<<emit("REPEAT_START", <<stmt.times * Scale>>, line, column)>>
                    \o GenAll(stmt.statements, symbols))
                    \o <<emit("REPEAT_END", <<>>, line, column)>>

\* a generate that seeds the preamble from the built-in defaults
generate_from_defaults(program, symbols) ==
    (<< emit("INIT", <<>>, 0, 0),
        emit("SET_TEMPO", <<defaults["tempo"]>>, 0, 0),
        emit("SET_VOLUME", <<defaults["volume"]>>, 0, 0),
        emit("SET_INSTRUMENT", <<defaults["instrument"]>>, 0, 0) >>
        \o GenAll(program.statements, symbols))
        \o <<emit("END", <<>>, 0, 0)>>

\* CodeGenerator(symbol_table).generate(ast)
generate(program, symbols) ==
    (<< emit("INIT", <<>>, 0, 0),
        emit("SET_TEMPO", <<get_value(symbols, "tempo", <<>>)>>, 0, 0),
        emit("SET_VOLUME", <<get_value(symbols, "volume", <<>>)>>, 0, 0),
        emit("SET_INSTRUMENT", <<get_value(symbols, "instrument", <<>>)>>, 0, 0) >>
        \o GenAll(program.statements, symbols))
        \o <<emit("END", <<>>, 0, 0)>>

\* ------------------------------------------------------------ synthesizer
sample_rate == 44100

Instr(op, operands) == [opcode |-> op, operands |-> operands, line |-> 0, column |-> 0]

\* a buffer of audio_data: the waveform is a function of these fields
Buffer(kind, n, freq, s) ==
    [kind |-> kind, n |-> n, freq |-> freq,
     volume |-> IF kind = "silence" THEN 0 ELSE s.volume,
     instrument |-> IF kind = "silence" THEN <<>> ELSE s.instrument]

\* _generate_tone: the number of samples of the tone buffer
ToneSamples(duration, tempo) ==
    IF duration * 60 * Scale < tempo         \* duration*60/tempo < 0.01
    THEN sample_rate \div 100                \* int(sample_rate * 0.01)
    ELSE FloorMulDiv(sample_rate * 60, duration, tempo)

\* _add_silence: the number of samples of the silence buffer
SilenceSamples(duration, tempo) ==
    IF duration <= 0 THEN 0 ELSE FloorMulDiv(sample_rate * 60, duration, tempo)

add_silence(s, duration) ==
    LET n == SilenceSamples(duration, s.tempo)
    IN  IF n > 0
        THEN [s EXCEPT !.audio_data = Append(@, Buffer("silence", n, <<>>, s))]
        ELSE s

synthesize_note(s, note, duration) ==
    IF note \notin DOMAIN note_frequencies
    THEN add_silence(s, duration)
    ELSE LET n == ToneSamples(duration, s.tempo)
         IN  IF n > 0
             THEN [s EXCEPT !.audio_data =
                      Append(@, Buffer("tone", n, <<note_frequencies[note]>>, s))]
             ELSE s

\* the notes of a chord that are in the table, in order
RECURSIVE ValidNotes(_)
ValidNotes(notes) ==
    IF notes = <<>> THEN <<>>
    ELSE (IF Head(notes) \in DOMAIN note_frequencies
          THEN <<note_frequencies[Head(notes)]>> ELSE <<>>) \o ValidNotes(Tail(notes))

synthesize_chord(s, notes, duration) ==
    IF notes = <<>> \/ ValidNotes(notes) = <<>>
    THEN add_silence(s, duration)
    ELSE LET n == ToneSamples(duration, s.tempo)   \* every tone has this length
         IN  IF n > 0
             THEN [s EXCEPT !.audio_data =
                      Append(@, Buffer("chord", n, ValidNotes(notes), s))]
             ELSE add_silence(s, duration)

\* ---- the mixing of one chord, sample by sample
\* A tone buffer is a sequence of samples in fixed point (Scale is 1.0). The
\* mix is kept exact: chord_samples holds numerators, den their common
\* denominator.
\* _synthesize_chord has not been entered: no tone buffer, no mix
NoChord ==
    [pc |-> "idle", tones |-> <<>>, i |-> 1, note_samples |-> <<>>, max_length |-> 0,
     chord_samples |-> <<>>, den |-> 1, appended |-> <<>>]

\* entry with the buffers _generate_tone returns for the valid notes
ChordStart(tones) == [NoChord EXCEPT !.pc = "collect", !.tones = tones]

\* 'for note in valid_notes': a tone that is not empty is kept and max_length
\* follows
collect_tone(c) ==
    LET samples == c.tones[c.i]
    IN  IF Len(samples) > 0
        THEN [c EXCEPT !.note_samples = Append(@, samples),
                       !.max_length = Max(@, Len(samples)),
                       !.i = @ + 1]
        ELSE [c EXCEPT !.i = @ + 1]

\* after the loop: silence when no tone was kept, else np.zeros(max_length)
start_mix(c) ==
    IF c.note_samples = <<>> THEN [c EXCEPT !.pc = "silence"]
    ELSE [c EXCEPT !.pc = "sum", !.i = 1,
                   !.chord_samples = [ j \in 1..c.max_length |-> 0 ]]

\* the buffer padded with zeros, or trimmed, to max_length
pad_samples(samples, max_length) ==
    [ j \in 1..max_length |-> IF j <= Len(samples) THEN samples[j] ELSE 0 ]

\* 'for samples in note_samples: chord_samples += samples'
add_samples(c) ==
    LET samples == pad_samples(c.note_samples[c.i], c.max_length)
    IN  [c EXCEPT !.chord_samples = [ j \in 1..c.max_length |-> @[j] + samples[j] ],
                  !.i = @ + 1]

\* a mix that is never divided by the number of notes
normalize_never(c) == c

\* 'if len(note_samples) > 1: chord_samples = chord_samples / len(note_samples)'
normalize(c) ==
    IF Len(c.note_samples) > 1 THEN [c EXCEPT !.den = @ * Len(c.note_samples)] ELSE c

\* 'chord_samples = chord_samples * 0.8', then audio_data.append
scale_and_append(c) ==
    LET d == [c EXCEPT !.chord_samples = [ j \in 1..Len(@) |-> @[j] * 8 ],
                       !.den = @ * 10]
    IN  [d EXCEPT !.pc = "appended", !.appended = <<d.chord_samples>>]

\* the state synthesize starts from: the constructor's registers, an empty
\* audio_data and repeat_stack, i = 0
SynthStart ==
    [i |-> 1, tempo |-> 120 * Scale, volume |-> Scale \div 2,
     instrument |-> sine,
     repeat_stack |-> <<>>, audio_data |-> <<>>, trace |-> <<>>,
     status |-> "loop"]

IsObserved(op) ==
    op \in {"SET_TEMPO", "SET_VOLUME", "SET_INSTRUMENT", "PLAY_NOTE", "PLAY_CHORD", "REST"}

\* REPEAT_START: push a frame whose body starts at the next instruction
repeat_start(s, times) ==
    [s EXCEPT !.repeat_stack =
        Append(@, [times |-> IntOf(times), start |-> s.i + 1, current |-> 0])]

\* a REPEAT_END that leaves the frame of a finished loop on the stack
repeat_end_keeping_frame(s) ==
    IF s.repeat_stack = <<>> THEN s
    ELSE LET top == Len(s.repeat_stack)
             info == s.repeat_stack[top]
         IN  IF info.current + 1 < info.times
             THEN [s EXCEPT !.repeat_stack[top].current = @ + 1,
                            !.i = info.start - 1]
             ELSE s

\* a REPEAT_END that jumps back once too often
repeat_end_once_more(s) ==
    IF s.repeat_stack = <<>> THEN s
    ELSE LET top == Len(s.repeat_stack)
             info == s.repeat_stack[top]
         IN  IF info.current + 1 <= info.times
             THEN [s EXCEPT !.repeat_stack[top].current = @ + 1,
                            !.i = info.start - 1]
             ELSE [s EXCEPT !.repeat_stack = SubSeq(@, 1, top - 1)]

\* REPEAT_END: count the pass on the top frame; jump back to the body start
\* (start - 1, then the loop's i += 1) or pop the frame
repeat_end(s) ==
    IF s.repeat_stack = <<>> THEN s
    ELSE LET top == Len(s.repeat_stack)
             info == s.repeat_stack[top]
         IN  IF info.current + 1 < info.times
             THEN [s EXCEPT !.repeat_stack[top].current = @ + 1,
                            !.i = info.start - 1]
             ELSE [s EXCEPT !.repeat_stack = SubSeq(@, 1, top - 1)]

\* an opcode branch whose SET_TEMPO and SET_VOLUME store the operand as it is
ExecOpcode_unclamped(s, instr) ==
    LET ops == instr.operands
    IN  CASE instr.opcode = "INIT" -> s
          [] instr.opcode = "SET_TEMPO" -> [s EXCEPT !.tempo = ops[1]]
          [] instr.opcode = "SET_VOLUME" -> [s EXCEPT !.volume = ops[1]]
          [] instr.opcode = "SET_INSTRUMENT" -> [s EXCEPT !.instrument = ops[1]]
          [] instr.opcode = "PLAY_NOTE" -> synthesize_note(s, ops[1], ops[2])
          [] instr.opcode = "PLAY_CHORD" -> synthesize_chord(s, ops[1], ops[2])
          [] instr.opcode = "REST" -> add_silence(s, ops[1])
          [] instr.opcode = "REPEAT_START" -> repeat_start(s, ops[1])
          [] instr.opcode = "REPEAT_END" -> repeat_end(s)
          [] instr.opcode = "END" -> [s EXCEPT !.status = "break"]
          [] OTHER -> s

\* the effect of the opcode branch on registers, audio_data and repeat_stack
ExecOpcode(s, instr) ==
    LET ops == instr.operands
    IN  CASE instr.opcode = "INIT" -> s
          [] instr.opcode = "SET_TEMPO" ->
                [s EXCEPT !.tempo = Max(1 * Scale, Min(300 * Scale, ops[1]))]
          [] instr.opcode = "SET_VOLUME" ->
                [s EXCEPT !.volume = Max(0, Min(1 * Scale, ops[1]))]
          [] instr.opcode = "SET_INSTRUMENT" -> [s EXCEPT !.instrument = ops[1]]
          [] instr.opcode = "PLAY_NOTE" -> synthesize_note(s, ops[1], ops[2])
          [] instr.opcode = "PLAY_CHORD" -> synthesize_chord(s, ops[1], ops[2])
          [] instr.opcode = "REST" -> add_silence(s, ops[1])
          [] instr.opcode = "REPEAT_START" -> repeat_start(s, ops[1])
          [] instr.opcode = "REPEAT_END" -> repeat_end(s)
          [] instr.opcode = "END" -> [s EXCEPT !.status = "break"]
          [] OTHER -> s

\* a pass of the loop in which END does not break
SynthStep_past_end(s, instrs) ==
    LET instr == instrs[s.i]
        t == ExecOpcode(s, instr)
        u == [t EXCEPT !.i = @ + 1, !.status = "loop"]
    IN  IF IsObserved(instr.opcode)
        THEN [u EXCEPT !.trace =
                 Append(@, <<instr.opcode, instr.operands, u.tempo, u.volume, u.instrument>>)]
        ELSE u

\* one pass of the while loop of synthesize: the branch, then i += 1 (END
\* breaks before it); trace records each executed register or sound
\* instruction with the registers it leaves
SynthStep(s, instrs) ==
    LET instr == instrs[s.i]
        t == ExecOpcode(s, instr)
        u == IF t.status = "break" THEN t ELSE [t EXCEPT !.i = @ + 1]
    IN  IF IsObserved(instr.opcode)
        THEN [u EXCEPT !.trace =
                 Append(@, <<instr.opcode, instr.operands, u.tempo, u.volume, u.instrument>>)]
        ELSE u

\* the loop is left: by its condition or by the break of END
LoopLeft(s, instrs) == s.status = "break" \/ (s.status = "loop" /\ s.i > Len(instrs))

\* after the loop: the (possibly empty) concatenation is returned
SynthFinish(s) == [s EXCEPT !.status = "returned"]

RECURSIVE RunSynthesize(_, _)
RunSynthesize(s, instrs) ==
    IF s.status = "returned" THEN s
    ELSE IF LoopLeft(s, instrs) THEN SynthFinish(s)
    ELSE RunSynthesize(SynthStep(s, instrs), instrs)

\* -------------------------------------------------------- compile_string
\* MusicCompiler(): nothing has run; ast and symbol_table are <<>> until the
\* stage that assigns them returns; stages lists the stages started so far
NewCompiler ==
    [pc |-> "tokenize", ast |-> <<>>, symbol_table |-> <<>>, stages |-> <<>>,
     error |-> "None", saved |-> FALSE, result |-> "None"]

Started(c, stage) == [c EXCEPT !.stages = Append(@, stage)]

\* the except clauses: the error is printed and False returned
Except(c, error) == [c EXCEPT !.pc = "done", !.error = error, !.result = "False"]

\* Phase 1: tokens = self.lexer.tokenize()
tokenize_phase(c, lx) ==
    IF lx.status = "error" THEN Except(Started(c, "tokenize"), "LexError")
    ELSE [Started(c, "tokenize") EXCEPT !.pc = "parse"]

\* Phase 2: ast = self.parser.parse()
parse_phase(c, tokens) ==
    LET r == parse(tokens)
    IN  IF r.ok THEN [Started(c, "parse") EXCEPT !.pc = "analyze", !.ast = <<r.node>>]
        ELSE Except(Started(c, "parse"), "ParseError")

\* a Phase 3 that hands the analyzer's table on whatever the walk recorded
analyze_phase_ignoring_errors(c) ==
    [Started(c, "analyze") EXCEPT
        !.pc = "generate", !.symbol_table = <<analyze(c.ast[1]).symbol_table>>]

\* Phase 3: symbol_table = self.semantic_analyzer.analyze(ast)
analyze_phase(c) ==
    LET a == analyze(c.ast[1])
    IN  IF a.returned
        THEN [Started(c, "analyze") EXCEPT
                !.pc = "generate", !.symbol_table = <<a.symbol_table>>]
        ELSE Except(Started(c, "analyze"), "SemanticError")

\* Phase 4: instructions = self.code_generator.generate(ast)
generate_phase(c) == [Started(c, "generate") EXCEPT !.pc = "synthesize"]

\* a Phase 5 that goes on to save_audio whatever synthesize returned
synthesize_phase_saving_empty(c, sy) == [Started(c, "synthesize") EXCEPT !.pc = "save"]

\* Phase 5: audio_data = self.synthesizer.synthesize(instructions), then
\* 'if len(audio_data) == 0: return False'
synthesize_phase(c, sy) ==
    IF sy.audio_data = <<>>
    THEN [Started(c, "synthesize") EXCEPT !.pc = "done", !.result = "False"]
    ELSE [Started(c, "synthesize") EXCEPT !.pc = "save"]

\* Phase 6: save_audio writes the file, or raises SynthesisError when the
\* write fails
save_phase(c, written) ==
    IF written
    THEN [Started(c, "save") EXCEPT !.pc = "done", !.saved = TRUE, !.result = "True"]
    ELSE Except(Started(c, "save"), "SynthesisError")

\* ------------------------------------------------ interpreter, step by step
SeqsUpTo(S, n) == UNION { [1..k -> S] : k \in 0..n }

NoteA4 == <<"A", "4">>

LoopAlphabet ==
    { Instr("REPEAT_START", <<n * Scale>>) : n \in 1..MaxTimes } \cup
    { Instr("REPEAT_END", <<>>),
      Instr("PLAY_NOTE", <<NoteA4, 1 * Scale>>),
      Instr("SET_TEMPO", <<60 * Scale>>),
      Instr("END", <<>>) }

InitLoop ==
    /\ instructions \in SeqsUpTo(LoopAlphabet, MaxInstrs)
    /\ synth = SynthStart
    /\ text = <<>>
    /\ lexer = LexStart
    /\ compiler = NewCompiler
    /\ chord = NoChord
    /\ runs = <<>>

SynthExec ==
    /\ synth.status = "loop"
    /\ synth.i <= Len(instructions)
    /\ synth' = SynthStep(synth, instructions)
    /\ UNCHANGED <<instructions, text, lexer, compiler, chord, runs>>

SynthReturn ==
    /\ LoopLeft(synth, instructions)
    /\ synth' = SynthFinish(synth)
    /\ UNCHANGED <<instructions, text, lexer, compiler, chord, runs>>

NextSynth == SynthExec \/ SynthReturn

SpecLoop == InitLoop /\ [][NextSynth]_vars

\* ---- C1: loop equivalence
RECURSIVE NestingOk(_, _)
NestingOk(instrs, depth) ==
    IF instrs = <<>> THEN depth = 0
    ELSE CASE Head(instrs).opcode = "REPEAT_START" -> NestingOk(Tail(instrs), depth + 1)
           [] Head(instrs).opcode = "REPEAT_END" ->
                 depth > 0 /\ NestingOk(Tail(instrs), depth - 1)
           [] OTHER -> NestingOk(Tail(instrs), depth)

\* every REPEAT_START has its REPEAT_END, properly nested, with n in 1..100
ProperlyNested(instrs) ==
    /\ NestingOk(instrs, 0)
    /\ \A k \in 1..Len(instrs) :
          instrs[k].opcode = "REPEAT_START" => IntOf(instrs[k].operands[1]) \in 1..100

\* the index of the REPEAT_END closing the loop opened before index q
RECURSIVE MatchingEnd(_, _, _)
MatchingEnd(instrs, q, depth) ==
    CASE instrs[q].opcode = "REPEAT_END" ->
            IF depth = 1 THEN q ELSE MatchingEnd(instrs, q + 1, depth - 1)
      [] instrs[q].opcode = "REPEAT_START" -> MatchingEnd(instrs, q + 1, depth + 1)
      [] OTHER -> MatchingEnd(instrs, q + 1, depth)

RECURSIVE Copies(_, _)
Copies(body, n) == IF n <= 0 THEN <<>> ELSE body \o Copies(body, n - 1)

\* the sequence with every 'REPEAT_START(n) body REPEAT_END' replaced by n
\* consecutive copies of body
RECURSIVE Unroll(_)
Unroll(instrs) ==
    IF instrs = <<>> THEN <<>>
    ELSE IF Head(instrs).opcode = "REPEAT_START"
    THEN LET q == MatchingEnd(instrs, 2, 1)
         IN  Copies(Unroll(SubSeq(instrs, 2, q - 1)), IntOf(Head(instrs).operands[1]))
                \o Unroll(SubSeq(instrs, q + 1, Len(instrs)))
    ELSE <<Head(instrs)>> \o Unroll(Tail(instrs))

IsPrefix(a, b) == Len(a) <= Len(b) /\ SubSeq(b, 1, Len(a)) = a

\* C1: on a properly nested sequence the interpreter executes the register and
\* sound instructions of the unrolled sequence, in the same order and with the
\* same registers: at every step what it has executed is a prefix of the
\* unrolled run, and on return both the executed instructions and the buffers
\* appended are those of the unrolled run.
C1_LoopEquivalence ==
    ProperlyNested(instructions) =>
        LET flat == RunSynthesize(SynthStart, Unroll(instructions))
        IN  /\ IsPrefix(synth.trace, flat.trace)
            /\ IsPrefix(synth.audio_data, flat.audio_data)
            /\ synth.status = "returned" =>
                  /\ synth.trace = flat.trace
                  /\ synth.audio_data = flat.audio_data

RECURSIVE MaxDepth(_, _, _)
MaxDepth(instrs, depth, best) ==
    IF instrs = <<>> THEN best
    ELSE CASE Head(instrs).opcode = "REPEAT_START" ->
                 MaxDepth(Tail(instrs), depth + 1, Max(best, depth + 1))
           [] Head(instrs).opcode = "REPEAT_END" -> MaxDepth(Tail(instrs), depth - 1, best)
           [] OTHER -> MaxDepth(Tail(instrs), depth, best)

\* a loop inside a loop, both run twice, has played its body four times
C1_Witness ==
    /\ ProperlyNested(instructions)
    /\ MaxDepth(instructions, 0, 0) = 2
    /\ synth.status = "returned"
    /\ Len(synth.audio_data) = 4

\* the body of a twice-run loop changes the tempo: its second pass plays at
\* the tempo the first pass left, so the two tones differ in length
C1_WitnessCarry ==
    /\ Len(instructions) = 4
    /\ instructions[1] = Instr("REPEAT_START", <<2 * Scale>>)
    /\ instructions[2].opcode = "PLAY_NOTE"
    /\ instructions[3].opcode = "SET_TEMPO"
    /\ instructions[4].opcode = "REPEAT_END"
    /\ synth.status = "returned"
    /\ Len(synth.audio_data) = 2
    /\ synth.audio_data[1].n # synth.audio_data[2].n

\* ------------------------------------------- one tone at a chosen tempo
\* tempo operands 10, 20, .. 300 and durations 0.25 .. 4 beats; on this grid
\* the float product sample_rate * (duration * 60.0 / tempo) truncates to the
\* same integer as the exact product
ToneTempos == { k * 10 * Scale : k \in 1..30 }
ToneDurations == { 25, 50, 100, 200, 400 }

InitTone ==
    /\ \E t \in ToneTempos, d \in ToneDurations :
          instructions = << Instr("SET_TEMPO", <<t>>), Instr("PLAY_NOTE", <<NoteA4, d>>) >>
    /\ synth = SynthStart
    /\ text = <<>>
    /\ lexer = LexStart
    /\ compiler = NewCompiler
    /\ chord = NoChord
    /\ runs = <<>>

SpecTone == InitTone /\ [][NextSynth]_vars

\* n is the integer nearest to a * b / c (either neighbour on a tie)
IsNearest(n, a, b, c) ==
    LET r == ((a % c) * b) % c
        lo == FloorMulDiv(a, b, c)
    IN  CASE 2 * r < c -> n = lo
          [] 2 * r > c -> n = lo + 1
          [] OTHER -> n \in {lo, lo + 1}

\* C4: the tone buffer PLAY_NOTE appends has round(sample_rate *
\* duration * 60 / tempo) samples, the exact product rounded to the nearest
\* integer (tempo in [1,300], duration * 60 / tempo >= 0.01)
C4_RoundedSampleCount ==
    (synth.i > 2 /\ instructions[2].opcode = "PLAY_NOTE"
        /\ instructions[2].operands[2] * 60 * Scale >= synth.tempo) =>
        /\ Len(synth.audio_data) = 1
        /\ IsNearest(synth.audio_data[1].n, sample_rate * 60,
                     instructions[2].operands[2], synth.tempo)

\* what the code does instead: the product is truncated
C4_TruncatedSampleCount ==
    (synth.i > 2 /\ instructions[2].opcode = "PLAY_NOTE"
        /\ instructions[2].operands[2] * 60 * Scale >= synth.tempo) =>
        /\ Len(synth.audio_data) = 1
        /\ synth.audio_data[1].n =
              FloorMulDiv(sample_rate * 60, instructions[2].operands[2], synth.tempo)

\* ------------------------------------------------------ lexer, step by step
RECURSIVE Flatten(_)
Flatten(frags) == IF frags = <<>> THEN <<>> ELSE Head(frags) \o Flatten(Tail(frags))

\* the pieces the lexer's source texts are made of: blanks, a line break, a
\* comment, a string literal that spans a line break, a character no pattern
\* matches, a note, a number, a keyword, punctuation
LexFragments ==
    { <<" ">>, <<"\n">>, <<"#", "x">>, <<"\"", "a", "\n", "\"">>, <<"&">>,
      <<"C", "4">>, <<"1", ".", "5">>, <<"P", "L", "A", "Y">>, <<";">> }

InitLex ==
    /\ text \in { Flatten(f) : f \in SeqsUpTo(LexFragments, MaxFrags) }
    /\ lexer = LexStart
    /\ compiler = NewCompiler
    /\ chord = NoChord
    /\ runs = <<>>
    /\ instructions = <<>>
    /\ synth = SynthStart

\* a pass of the loop in which some pattern matches
LexMatch ==
    /\ lexer.status = "scan"
    /\ lexer.pos <= Len(text)
    /\ FirstPattern(text, lexer.pos) # 0
    /\ lexer' = LexStep(lexer, text)
    /\ UNCHANGED <<text, instructions, synth, compiler, chord, runs>>

\* a pass in which none does: LexError is raised
LexRaise ==
    /\ lexer.status = "scan"
    /\ lexer.pos <= Len(text)
    /\ FirstPattern(text, lexer.pos) = 0
    /\ lexer' = LexStep(lexer, text)
    /\ UNCHANGED <<text, instructions, synth, compiler, chord, runs>>

LexReturn ==
    /\ lexer.status = "scan"
    /\ lexer.pos > Len(text)
    /\ lexer' = LexFinish(lexer)
    /\ UNCHANGED <<text, instructions, synth, compiler, chord, runs>>

NextLex == LexMatch \/ LexRaise \/ LexReturn

SpecLex == InitLex /\ [][NextLex]_vars

\* the 1-based line and column of position p of the text
LineOf(txt, p) == 1 + Cardinality({ k \in 1..(p - 1) : txt[k] = "\n" })
ColumnOf(txt, p) ==
    LET nls == { k \in 1..(p - 1) : txt[k] = "\n" }
    IN  IF nls = {} THEN p ELSE p - (CHOOSE k \in nls : \A j \in nls : j <= k)

\* C8: the LexError names the character at which no pattern matches and
\* carries the 1-based line and column of that character; no token list is
\* returned
C8_LexErrorPosition ==
    lexer.status = "error" =>
        /\ lexer.error.char = text[lexer.pos]
        /\ FirstPattern(text, lexer.pos) = 0
        /\ lexer.error.line = LineOf(text, lexer.pos)
        /\ lexer.error.column = ColumnOf(text, lexer.pos)

\* the part of C8 the code keeps: the character named is the one at which
\* scanning stopped, and no pattern matches there
C8_LexErrorCharacter ==
    lexer.status = "error" =>
        /\ lexer.error.char = text[lexer.pos]
        /\ FirstPattern(text, lexer.pos) = 0

\* ------------------------------------------------- the pipeline, by stage
\* a Phase 1 that calls tokenize on the lexer the earlier call left behind
Phase1_reusing_lexer ==
    /\ compiler.pc = "tokenize"
    /\ lexer' = RunTokenize([lexer EXCEPT !.status = "scan"], text)
    /\ compiler' = tokenize_phase(compiler, lexer')
    /\ UNCHANGED <<text, instructions, synth, chord, runs>>

Phase1 ==
    /\ compiler.pc = "tokenize"
    /\ lexer' = RunTokenize(LexStart, text)
    /\ compiler' = tokenize_phase(compiler, lexer')
    /\ UNCHANGED <<text, instructions, synth, chord, runs>>

Phase2 ==
    /\ compiler.pc = "parse"
    /\ compiler' = parse_phase(compiler, lexer.tokens)
    /\ UNCHANGED <<text, lexer, instructions, synth, chord, runs>>

Phase3 ==
    /\ compiler.pc = "analyze"
    /\ compiler' = analyze_phase(compiler)
    /\ UNCHANGED <<text, lexer, instructions, synth, chord, runs>>

Phase4 ==
    /\ compiler.pc = "generate"
    /\ instructions' = generate(compiler.ast[1], compiler.symbol_table[1])
    /\ compiler' = generate_phase(compiler)
    /\ UNCHANGED <<text, lexer, synth, chord, runs>>

Phase5 ==
    /\ compiler.pc = "synthesize"
    /\ synth' = RunSynthesize(SynthStart, instructions)
    /\ compiler' = synthesize_phase(compiler, synth')
    /\ UNCHANGED <<text, lexer, instructions, chord, runs>>

Phase6 ==
    /\ compiler.pc = "save"
    /\ \E written \in BOOLEAN : compiler' = save_phase(compiler, written)
    /\ UNCHANGED <<text, lexer, instructions, synth, chord, runs>>

NextCompile == Phase1 \/ Phase2 \/ Phase3 \/ Phase4 \/ Phase5 \/ Phase6

\* the source texts: up to MaxStmts fragments, one after the other
Texts(fragments) == { Flatten(f) : f \in SeqsUpTo(fragments, MaxStmts) }

InitCompile(fragments) ==
    /\ text \in Texts(fragments)
    /\ lexer = LexStart
    /\ compiler = NewCompiler
    /\ chord = NoChord
    /\ runs = <<>>
    /\ instructions = <<>>
    /\ synth = SynthStart

SrcTempo90 == <<"T", "E", "M", "P", "O", " ", "=", " ", "9", "0", ";">>
SrcTempoHalf == <<"T", "E", "M", "P", "O", "=", "0", ".", "5", ";">>
SrcTempo301 == <<"T", "E", "M", "P", "O", " ", "=", " ", "3", "0", "1", ";">>
SrcVolume08 == <<"V", "O", "L", "U", "M", "E", "=", "0", ".", "8", ";">>
SrcVolume15 == <<"V", "O", "L", "U", "M", "E", "=", "1", ".", "5", ";">>
SrcPiano ==
    <<"I", "N", "S", "T", "R", "U", "M", "E", "N", "T", "=", "\"">> \o piano \o <<"\"", ";">>
SrcOrgan ==
    <<"I", "N", "S", "T", "R", "U", "M", "E", "N", "T", "=", "\"", "o", "r", "g", "a", "n",
      "\"", ";">>
SrcPlayC4 == <<"P", "L", "A", "Y", " ", "C", "4", ";">>
SrcRepeat2 == <<"R", "E", "P", "E", "A", "T", " ", "2", " ", "{">>
SrcClose == <<"}">>
SrcPlayClose == SrcPlayC4 \o SrcClose
SrcBreak == <<"\n", " ">>
SrcAmpersand == <<"&">>

FragsCompile ==
    { SrcTempo90, SrcTempo301, SrcPlayC4, SrcRepeat2, SrcClose, SrcBreak, SrcAmpersand }

SpecCompile == InitCompile(FragsCompile) /\ [][NextCompile]_vars

\* ---- C6: the stages of compile_string
StageOrder == <<"tokenize", "parse", "analyze", "generate", "synthesize", "save">>

InStages(stage) == \E k \in 1..Len(compiler.stages) : compiler.stages[k] = stage

\* C6: the stages start in the fixed order, each on the complete result of
\* the one before; once a stage has raised its error no later stage starts,
\* the table of a failed validation never reaches the code generator, nothing
\* is written and compile_string returns False.
C6_PipelineOrder ==
    /\ IsPrefix(compiler.stages, StageOrder)
    /\ InStages("parse") => lexer.status = "done"
    /\ InStages("analyze") => compiler.ast # <<>>
    /\ InStages("generate") =>
          /\ compiler.symbol_table # <<>>
          /\ analyze(compiler.ast[1]).errors = <<>>
          /\ instructions = generate(compiler.ast[1], compiler.symbol_table[1])
    /\ InStages("save") => synth.status = "returned" /\ synth.audio_data # <<>>
    /\ compiler.error # "None" =>
          /\ compiler.pc = "done" /\ compiler.result = "False" /\ ~compiler.saved
    /\ compiler.error = "LexError" =>
          compiler.stages = SubSeq(StageOrder, 1, 1) /\ lexer.status = "error"
    /\ compiler.error = "ParseError" =>
          compiler.stages = SubSeq(StageOrder, 1, 2) /\ compiler.ast = <<>>
    /\ compiler.error = "SemanticError" =>
          /\ compiler.stages = SubSeq(StageOrder, 1, 3)
          /\ compiler.symbol_table = <<>>
          /\ analyze(compiler.ast[1]).errors # <<>>
    /\ compiler.error \in {"LexError", "ParseError", "SemanticError"} =>
          instructions = <<>> /\ synth = SynthStart
    /\ compiler.result = "True" => compiler.stages = StageOrder /\ compiler.saved

\* validation failed: three stages ran and compile_string returned False
C6_Witness ==
    /\ compiler.error = "SemanticError"
    /\ compiler.stages = <<"tokenize", "parse", "analyze">>
    /\ compiler.result = "False"

\* ---- C7: source locations on instructions
\* the keyword that opens the statement an opcode is emitted for
KeywordOf(opcode) ==
    CASE opcode = "SET_TEMPO" -> "TEMPO"
      [] opcode = "SET_VOLUME" -> "VOLUME"
      [] opcode = "SET_INSTRUMENT" -> "INSTRUMENT"
      [] opcode = "PLAY_NOTE" -> "PLAY"
      [] opcode = "PLAY_CHORD" -> "CHORD"
      [] opcode = "REST" -> "REST"
      [] OTHER -> "REPEAT"

\* C7: every instruction emitted for a statement (all but the preamble
\* INIT, SET_TEMPO, SET_VOLUME, SET_INSTRUMENT and the final END) carries a
\* line and column >= 1, those of the token that opens its statement.
C7_InstructionLocation ==
    \A k \in 5..(Len(instructions) - 1) :
        /\ instructions[k].line >= 1
        /\ instructions[k].column >= 1
        /\ \E j \in 1..Len(lexer.tokens) :
              /\ lexer.tokens[j].type = KeywordOf(instructions[k].opcode)
              /\ lexer.tokens[j].line = instructions[k].line
              /\ lexer.tokens[j].column = instructions[k].column

\* what the code does: no AST node has a line or column, so every instruction
\* carries the default 0, 0
C7_InstructionLocationIsZero ==
    \A k \in 1..Len(instructions) :
        instructions[k].line = 0 /\ instructions[k].column = 0

\* ------------------------------------------------- programs of directives
FragsDirectives ==
    { SrcTempo90, SrcTempoHalf, SrcTempo301, SrcVolume08, SrcVolume15,
      SrcPiano, SrcOrgan, SrcRepeat2, SrcPlayClose }

SpecDirectives == InitCompile(FragsDirectives) /\ [][NextCompile]_vars

\* the statements of a program in source order, those of repeat bodies
\* following their repeat statement
RECURSIVE AllStatements(_)
AllStatements(statements) ==
    IF statements = <<>> THEN <<>>
    ELSE (<<Head(statements)>> \o
            (IF Head(statements).kind = "RepeatStatement"
             THEN AllStatements(Head(statements).statements) ELSE <<>>))
         \o AllStatements(Tail(statements))

ProgramStatements == AllStatements(compiler.ast[1].statements)

\* analyze has returned the table
Validated == compiler.symbol_table # <<>>

\* ---- C2: the tempo range after validation
\* C2: when analyze returns a table every TempoStatement, nested ones
\* included, has 1 <= bpm <= 300, and so has the table's 'tempo'.
C2_ValidatedTempoRange ==
    Validated =>
        /\ \A k \in 1..Len(ProgramStatements) :
              ProgramStatements[k].kind = "TempoStatement" =>
                  /\ ProgramStatements[k].bpm >= 1 * Scale
                  /\ ProgramStatements[k].bpm <= 300 * Scale
        /\ compiler.symbol_table[1]["tempo"].value >= 1 * Scale
        /\ compiler.symbol_table[1]["tempo"].value <= 300 * Scale

\* what the condition 'bpm <= 0 or bpm > 300' does ensure: 0 < bpm <= 300
C2_ValidatedTempoPositive ==
    Validated =>
        /\ \A k \in 1..Len(ProgramStatements) :
              ProgramStatements[k].kind = "TempoStatement" =>
                  /\ ProgramStatements[k].bpm > 0
                  /\ ProgramStatements[k].bpm <= 300 * Scale
        /\ compiler.symbol_table[1]["tempo"].value > 0
        /\ compiler.symbol_table[1]["tempo"].value <= 300 * Scale

\* ---- C5: accumulation of the messages
\* a TEMPO, VOLUME or INSTRUMENT statement outside the language's ranges:
\* tempo in [1,300], volume in [0,1], one of the five instruments
InvalidDirective(stmt) ==
    CASE stmt.kind = "TempoStatement" -> stmt.bpm < 1 * Scale \/ stmt.bpm > 300 * Scale
      [] stmt.kind = "VolumeStatement" -> stmt.level < 0 \/ stmt.level > 1 * Scale
      [] stmt.kind = "InstrumentStatement" ->
            stmt.name \notin {sine, square, triangle, sawtooth, piano}
      [] OTHER -> FALSE

\* a directive the analyzer's own checks reject
RejectedDirective(stmt) ==
    CASE stmt.kind = "TempoStatement" -> stmt.bpm <= 0 \/ stmt.bpm > 300 * Scale
      [] stmt.kind = "VolumeStatement" -> stmt.level < 0 \/ stmt.level > 1 * Scale
      [] stmt.kind = "InstrumentStatement" ->
            stmt.name \notin {sine, square, triangle, sawtooth, piano}
      [] OTHER -> FALSE

\* a statement other than a directive that meets the language's rules: a
\* repeat count in 1..100 with a non-empty body, 2 to 6 distinct chord notes,
\* positive durations, a rest of at most 16 beats
ValidOther(stmt) ==
    CASE stmt.kind = "RepeatStatement" ->
            stmt.times \in 1..100 /\ stmt.statements # <<>>
      [] stmt.kind = "PlayStatement" ->
            /\ stmt.notes # <<>>
            /\ \A k \in 1..Len(stmt.notes) : is_valid_note(stmt.notes[k])
            /\ stmt.duration # <<>> => stmt.duration[1] > 0
      [] stmt.kind = "ChordStatement" ->
            /\ Len(stmt.notes) \in 2..6
            /\ \A k \in 1..Len(stmt.notes) : is_valid_note(stmt.notes[k])
            /\ \A j, k \in 1..Len(stmt.notes) : j # k => stmt.notes[j] # stmt.notes[k]
            /\ stmt.duration # <<>> => stmt.duration[1] > 0
      [] stmt.kind = "RestStatement" -> stmt.duration > 0 /\ stmt.duration <= 16 * Scale
      [] OTHER -> TRUE

\* the invalid statements of the program are directives only
OnlyDirectivesInvalid ==
    \A k \in 1..Len(ProgramStatements) : ValidOther(ProgramStatements[k])

CountOf(statements, P(_)) == Cardinality({ k \in 1..Len(statements) : P(statements[k]) })

\* analyze has run: it returned the table or raised
Analyzed == Validated \/ compiler.error = "SemanticError"

\* C5: with N invalid TEMPO, VOLUME and INSTRUMENT statements in the program,
\* nested ones included, analyze visits every statement, records N messages
\* and raises one SemanticError exactly when N > 0.
C5_OneMessagePerInvalidStatement ==
    (Analyzed /\ OnlyDirectivesInvalid) =>
        LET a == analyze(compiler.ast[1])
            N == CountOf(ProgramStatements, InvalidDirective)
        IN  /\ a.visited = Len(ProgramStatements)
            /\ Len(a.errors) = N
            /\ a.raised = (IF N > 0 THEN 1 ELSE 0)
            /\ (compiler.error = "SemanticError") = (N > 0)

\* accumulation as the code has it: every statement is visited and every
\* directive its checks reject leaves one message, whatever precedes it
C5_OneMessagePerRejectedStatement ==
    (Analyzed /\ OnlyDirectivesInvalid) =>
        LET a == analyze(compiler.ast[1])
            N == CountOf(ProgramStatements, RejectedDirective)
        IN  /\ a.visited = Len(ProgramStatements)
            /\ Len(a.errors) = N
            /\ a.raised = (IF N > 0 THEN 1 ELSE 0)
            /\ (compiler.error = "SemanticError") = (N > 0)

\* ---- C9: last write wins
\* the operand of the last statement of the kind in source order, or the
\* default when there is none
RECURSIVE LastOperand(_, _, _, _)
LastOperand(statements, kind, field, default) ==
    IF statements = <<>> THEN default
    ELSE LET last == statements[Len(statements)]
         IN  IF last.kind = kind THEN last[field]
             ELSE LastOperand(SubSeq(statements, 1, Len(statements) - 1), kind, field,
                              default)

\* C9: on success the table's tempo, volume and instrument are the operands
\* of the last TEMPO, VOLUME and INSTRUMENT statement in source order (one in
\* a repeat body counting once, at its place), or 120.0, 0.5, 'sine'.
C9_LastDirectiveWins ==
    Validated =>
        /\ compiler.symbol_table[1]["tempo"].value =
              LastOperand(ProgramStatements, "TempoStatement", "bpm", 120 * Scale)
        /\ compiler.symbol_table[1]["volume"].value =
              LastOperand(ProgramStatements, "VolumeStatement", "level", Scale \div 2)
        /\ compiler.symbol_table[1]["instrument"].value =
              LastOperand(ProgramStatements, "InstrumentStatement", "name", sine)

\* a TEMPO in a repeat body overwrites the one before the loop
C9_Witness ==
    /\ Validated
    /\ Len(ProgramStatements) = 4
    /\ ProgramStatements[1].kind = "TempoStatement"
    /\ ProgramStatements[2].kind = "RepeatStatement"
    /\ ProgramStatements[3].kind = "TempoStatement"
    /\ ProgramStatements[3].bpm # ProgramStatements[1].bpm
    /\ compiler.symbol_table[1]["tempo"].value = ProgramStatements[3].bpm

\* ------------------------------------------------------ programs of notes
SrcPlayESharp4 == <<"P", "L", "A", "Y", " ", "E", "#", "4", ";">>
SrcPlayDb3 == <<"P", "L", "A", "Y", " ", "D", "b", "3", ";">>
SrcPlayG9 == <<"P", "L", "A", "Y", " ", "G", "9", ";">>
SrcChordMajor ==
    <<"C", "H", "O", "R", "D", "[", "C", "4", ",", "E", "4", ",", "G", "4", "]", ";">>
SrcChordFlat == <<"C", "H", "O", "R", "D", "[", "C", "4", ",", "F", "b", "4", "]", ";">>

FragsNotes ==
    { SrcPlayC4, SrcPlayESharp4, SrcPlayDb3, SrcPlayG9, SrcChordMajor, SrcChordFlat,
      SrcRepeat2, SrcClose }

SpecNotes == InitCompile(FragsNotes) /\ [][NextCompile]_vars

\* ---- C3: validated notes and the frequency table
\* the index of the letter in C, C#, D, ..., B
LetterIndex(letter) ==
    CASE letter = "C" -> 0 [] letter = "D" -> 2 [] letter = "E" -> 4
      [] letter = "F" -> 5 [] letter = "G" -> 7 [] letter = "A" -> 9
      [] letter = "B" -> 11

\* the pitch class of a note string: '#' raises, 'b' lowers its letter
PitchClassIndex(note) ==
    LetterIndex(note[1]) +
        (IF Len(note) = 3 THEN (IF note[2] = "#" THEN 1 ELSE -1) ELSE 0)

\* (octave - 4) * 12 + (pitch-class index - 9)
EqualTemperamentOffset(note) ==
    (DigitValue(note[Len(note)]) - 4) * 12 + (PitchClassIndex(note) - 9)

InTable(note) ==
    /\ note \in DOMAIN note_frequencies
    /\ note_frequencies[note] = EqualTemperamentOffset(note)

\* the notes the instructions name, in order
RECURSIVE InstructionNotes(_)
InstructionNotes(instrs) ==
    IF instrs = <<>> THEN <<>>
    ELSE (CASE Head(instrs).opcode = "PLAY_NOTE" -> <<Head(instrs).operands[1]>>
            [] Head(instrs).opcode = "PLAY_CHORD" -> Head(instrs).operands[1]
            [] OTHER -> <<>>) \o InstructionNotes(Tail(instrs))

\* C3: every note of a PLAY_NOTE or PLAY_CHORD emitted for a validated
\* program is a key of the frequency table with the equal-temperament offset
\* from A4, so that synthesis never meets an unknown note.
C3_ValidatedNotesInTable ==
    \A k \in 1..Len(InstructionNotes(instructions)) :
        /\ is_valid_note(InstructionNotes(instructions)[k])
        /\ InTable(InstructionNotes(instructions)[k])

\* what does hold: the emitted notes passed is_valid_note, and those the
\* table has carry the equal-temperament offset
C3_TableNotesPitch ==
    \A k \in 1..Len(InstructionNotes(instructions)) :
        LET note == InstructionNotes(instructions)[k]
        IN  /\ is_valid_note(note)
            /\ note \in DOMAIN note_frequencies => InTable(note)

\* ---------------------------------------------------- programs of repeats
SrcRepeat0_9 == <<"R", "E", "P", "E", "A", "T", " ", "0", ".", "9", "{">>
SrcRepeat1_9 == <<"R", "E", "P", "E", "A", "T", " ", "1", ".", "9", "{">>
SrcRepeat101 == <<"R", "E", "P", "E", "A", "T", " ", "1", "0", "1", "{">>

FragsRepeat ==
    { SrcRepeat2, SrcRepeat0_9, SrcRepeat1_9, SrcRepeat101, SrcClose, SrcPlayC4,
      SrcPlayClose }

SpecRepeat == InitCompile(FragsRepeat) /\ [][NextCompile]_vars

\* ---- C10: the repeats of a validated program
\* C10: when analyze returns a table every RepeatStatement, nested ones
\* included, has a count in 1..100 and a non-empty body; every REPEAT_START
\* emitted then carries an operand in 1..100 and is followed by a body
\* instruction, not by its REPEAT_END.
C10_ValidatedRepeats ==
    Validated =>
        /\ \A k \in 1..Len(ProgramStatements) :
              ProgramStatements[k].kind = "RepeatStatement" =>
                  /\ ProgramStatements[k].times \in 1..100
                  /\ ProgramStatements[k].statements # <<>>
        /\ \A k \in 1..Len(instructions) :
              instructions[k].opcode = "REPEAT_START" =>
                  /\ instructions[k].operands[1] \in { n * Scale : n \in 1..100 }
                  /\ k < Len(instructions)
                  /\ instructions[k + 1].opcode # "REPEAT_END"

\* a validated program with a repeat in a repeat, its instructions emitted
C10_Witness ==
    /\ Validated
    /\ Len(ProgramStatements) = 3
    /\ ProgramStatements[1].kind = "RepeatStatement"
    /\ ProgramStatements[2].kind = "RepeatStatement"
    /\ ProgramStatements[2].times = 1
    /\ Len(instructions) = 10
    /\ instructions[5].opcode = "REPEAT_START"
    /\ instructions[6].opcode = "REPEAT_START"
    /\ instructions[6].operands[1] = 1 * Scale
    /\ instructions[7].opcode = "PLAY_NOTE"

\* ---- C11: a program that makes no sound
\* C11: when the instructions append no buffer, synthesize returns the empty
\* waveform without raising and compile_string returns False: save_audio is
\* not called and no error is raised.
C11_EmptyWaveformReturnsFalse ==
    (InStages("synthesize") /\ synth.audio_data = <<>>) =>
        /\ synth.status = "returned"
        /\ compiler.pc = "done"
        /\ compiler.result = "False"
        /\ compiler.error = "None"
        /\ ~compiler.saved
        /\ ~InStages("save")

\* a program of one TEMPO directive went through synthesis and made no sound
C11_Witness ==
    /\ text = SrcTempo90
    /\ Len(instructions) = 6
    /\ InStages("synthesize")
    /\ synth.status = "returned"
    /\ synth.audio_data = <<>>
    /\ compiler.result = "False"
    /\ compiler.error = "None"

\* ------------------------------------------------- chord mixing, by sample
MaxNotes == 3       \* most valid notes of the chord mixed
MaxSamples == 2     \* longest tone buffer drawn

\* the samples a tone buffer is drawn from: -1.0 and 1.0
ToneValues == { -Scale, Scale }

\* the tones of one chord: _generate_tone gives every note of a chord the
\* same number of samples
InitChord ==
    /\ \E k \in 1..MaxNotes, n \in 1..MaxSamples :
          chord \in { ChordStart(tones) : tones \in [1..k -> [1..n -> ToneValues]] }
    /\ text = <<>>
    /\ lexer = LexStart
    /\ compiler = NewCompiler
    /\ instructions = <<>>
    /\ synth = SynthStart
    /\ runs = <<>>

ChordCollect ==
    /\ chord.pc = "collect"
    /\ chord.i <= Len(chord.tones)
    /\ chord' = collect_tone(chord)
    /\ UNCHANGED <<text, lexer, compiler, instructions, synth, runs>>

ChordZeros ==
    /\ chord.pc = "collect"
    /\ chord.i > Len(chord.tones)
    /\ chord' = start_mix(chord)
    /\ UNCHANGED <<text, lexer, compiler, instructions, synth, runs>>

ChordAdd ==
    /\ chord.pc = "sum"
    /\ chord.i <= Len(chord.note_samples)
    /\ chord' = add_samples(chord)
    /\ UNCHANGED <<text, lexer, compiler, instructions, synth, runs>>

ChordAppend ==
    /\ chord.pc = "sum"
    /\ chord.i > Len(chord.note_samples)
    /\ chord' = scale_and_append(normalize(chord))
    /\ UNCHANGED <<text, lexer, compiler, instructions, synth, runs>>

NextChord == ChordCollect \/ ChordZeros \/ ChordAdd \/ ChordAppend

SpecChord == InitChord /\ [][NextChord]_vars

\* ---- C12: the chord mixing bound
\* the sum of the j-th samples of the tones, a tone shorter than j counting 0
RECURSIVE SumAt(_, _)
SumAt(tones, j) ==
    IF tones = <<>> THEN 0
    ELSE (IF j <= Len(Head(tones)) THEN Head(tones)[j] ELSE 0) + SumAt(Tail(tones), j)

RECURSIVE Longest(_)
Longest(tones) ==
    IF tones = <<>> THEN 0 ELSE Max(Len(Head(tones)), Longest(Tail(tones)))

Abs(x) == IF x >= 0 THEN x ELSE -x

\* C12: the buffer appended for a chord of k tones is as long as the longest
\* tone; its j-th sample is the sum of the tones' j-th samples, divided by k
\* when k > 1, times 0.8; with tone samples in [-1, 1] no sample exceeds 0.8
\* in absolute value.
C12_ChordMixBound ==
    chord.pc = "appended" =>
        LET k == Len(chord.tones)
            mix == chord.appended[1]
        IN  /\ Len(chord.appended) = 1
            /\ Len(mix) = Longest(chord.tones)
            /\ \A j \in 1..Len(mix) :
                  \* mix[j] / den = (sum / k) * 8 / 10
                  /\ mix[j] * (IF k > 1 THEN k ELSE 1) * 10 = SumAt(chord.tones, j) * 8 * chord.den
                  \* |mix[j] / den| <= 0.8
                  /\ Abs(mix[j]) * 10 <= 8 * Scale * chord.den

\* three tones at full scale in phase were mixed: the mix is at 0.8 exactly
C12_Witness ==
    /\ chord.pc = "appended"
    /\ Len(chord.tones) = 3
    /\ \A t \in 1..3 : chord.tones[t] = <<Scale, Scale>>
    /\ chord.appended[1] = <<3 * Scale * 8, 3 * Scale * 8>>
    /\ chord.den = 30

\* ------------------------------------------- compile_string, called again
MaxRuns == 2        \* calls of compile_string on the same source text

\* what a call of compile_string produced
RunResult ==
    [tokens |-> lexer.tokens, lex_status |-> lexer.status, instructions |-> instructions,
     audio_data |-> synth.audio_data, stages |-> compiler.stages, error |-> compiler.error]

\* compile_string is called again on the same text: its locals are unbound
\* again, the objects of the earlier call are still the compiler's attributes
\* until each phase replaces its own
Rerun ==
    /\ compiler.pc = "done"
    /\ Len(runs) < MaxRuns - 1
    /\ runs' = Append(runs, RunResult)
    /\ compiler' = NewCompiler
    /\ instructions' = <<>>
    /\ UNCHANGED <<text, lexer, synth, chord>>

NextRerun == NextCompile \/ Rerun

SpecRerun == InitCompile(FragsCompile) /\ [][NextRerun]_vars

RECURSIVE Linearized(_)
Linearized(statements) ==
    IF statements = <<>> THEN <<>>
    ELSE LET stmt == Head(statements)
         IN  (CASE stmt.kind = "RepeatStatement" ->
                      (<< <<"REPEAT_START", <<stmt.times * Scale>>>> >>
                          \o Linearized(stmt.statements))
                          \o << <<"REPEAT_END", <<>>>> >>
                [] stmt.kind = "PlayStatement" ->
                      [ k \in 1..Len(stmt.notes) |-> <<"PLAY_NOTE", <<stmt.notes[k]>>>> ]
                [] stmt.kind = "ChordStatement" -> << <<"PLAY_CHORD", <<stmt.notes>>>> >>
                [] stmt.kind = "TempoStatement" -> << <<"SET_TEMPO", <<stmt.bpm>>>> >>
                [] stmt.kind = "VolumeStatement" -> << <<"SET_VOLUME", <<stmt.level>>>> >>
                [] stmt.kind = "InstrumentStatement" ->
                      << <<"SET_INSTRUMENT", <<stmt.name>>>> >>
                [] stmt.kind = "RestStatement" -> << <<"REST", <<stmt.duration>>>> >>)
             \o Linearized(Tail(statements))

\* opcode and first operand of an instruction
HeadOf(instr) ==
    <<instr.opcode, IF instr.operands = <<>> THEN <<>> ELSE <<instr.operands[1]>>>>

CountOpcode(instrs, opcode) ==
    Cardinality({ k \in 1..Len(instrs) : instrs[k].opcode = opcode })

\* C14: the list generate returns starts with INIT, SET_TEMPO, SET_VOLUME,
\* SET_INSTRUMENT carrying the validated table's values, ends with the only
\* END, and in between holds each statement's instructions once, in order,
\* every repeat as REPEAT_START(times), body, REPEAT_END, balanced and nested.
C14_GeneratedShape ==
    InStages("generate") =>
        LET n == Len(instructions)
            table == compiler.symbol_table[1]
        IN  /\ n >= 5
            /\ HeadOf(instructions[1]) = <<"INIT", <<>>>>
            /\ instructions[2].opcode = "SET_TEMPO"
            /\ instructions[2].operands = <<table["tempo"].value>>
            /\ instructions[3].opcode = "SET_VOLUME"
            /\ instructions[3].operands = <<table["volume"].value>>
            /\ instructions[4].opcode = "SET_INSTRUMENT"
            /\ instructions[4].operands = <<table["instrument"].value>>
            /\ instructions[n].opcode = "END"
            /\ CountOpcode(instructions, "END") = 1
            /\ [ k \in 1..(n - 5) |-> HeadOf(instructions[k + 4]) ]
                  = Linearized(compiler.ast[1].statements)
            /\ NestingOk(instructions, 0)
            /\ CountOpcode(instructions, "REPEAT_START") =
                  Cardinality({ k \in 1..Len(ProgramStatements) :
                                   ProgramStatements[k].kind = "RepeatStatement" })
            /\ CountOpcode(instructions, "REPEAT_END") =
                  CountOpcode(instructions, "REPEAT_START")

\* a repeat, then a TEMPO directive: the preamble carries the tempo of the
\* directive that comes last in the source, the body is there once
C14_Witness ==
    /\ InStages("generate")
    /\ Len(instructions) = 9
    /\ instructions[2].operands = <<90 * Scale>>
    /\ instructions[5].opcode = "REPEAT_START"
    /\ instructions[6].opcode = "PLAY_NOTE"
    /\ instructions[7].opcode = "REPEAT_END"
    /\ instructions[8].opcode = "SET_TEMPO"
    /\ instructions[9].opcode = "END"

\* ---- C15: the operands of PLAY_NOTE and PLAY_CHORD
SrcPlayTwo2 ==
    <<"P", "L", "A", "Y", " ", "C", "4", ",", "E", "4", " ",
      "D", "U", "R", "A", "T", "I", "O", "N", "=", "2", ";">>
SrcPlayZero ==
    <<"P", "L", "A", "Y", " ", "C", "4", " ",
      "D", "U", "R", "A", "T", "I", "O", "N", "=", "0", ";">>
SrcChordHalf ==
    <<"C", "H", "O", "R", "D", "[", "C", "4", ",", "E", "4", "]", " ",
      "D", "U", "R", "A", "T", "I", "O", "N", "=", "0", ".", "5", ";">>

FragsDurations ==
    {SrcPlayTwo2, SrcPlayC4, SrcPlayZero, SrcChordHalf, SrcChordMajor, SrcRepeat2, SrcClose}

SpecDurations == InitCompile(FragsDurations) /\ [][NextCompile]_vars

\* the duration operand claimed for a statement: its own duration when it has
\* one, the table's otherwise
ClaimedDuration(stmt, table_duration) ==
    IF stmt.duration # <<>> THEN stmt.duration[1] ELSE table_duration

\* what the statements are claimed to contribute, in order: opcode and
\* operands for PLAY_NOTE and PLAY_CHORD, the opcode alone for the others
RECURSIVE Played(_, _)
Played(statements, table_duration) ==
    IF statements = <<>> THEN <<>>
    ELSE LET stmt == Head(statements)
         IN  (CASE stmt.kind = "PlayStatement" ->
                      [ k \in 1..Len(stmt.notes) |->
                          <<"PLAY_NOTE",
                            <<stmt.notes[k], ClaimedDuration(stmt, table_duration)>>>> ]
                [] stmt.kind = "ChordStatement" ->
                      << <<"PLAY_CHORD",
                           <<stmt.notes, ClaimedDuration(stmt, table_duration)>>>> >>
                [] stmt.kind = "RepeatStatement" ->
                      (<< <<"REPEAT_START">> >> \o Played(stmt.statements, table_duration))
                          \o << <<"REPEAT_END">> >>
                [] stmt.kind = "TempoStatement" -> << <<"SET_TEMPO">> >>
                [] stmt.kind = "VolumeStatement" -> << <<"SET_VOLUME">> >>
                [] stmt.kind = "InstrumentStatement" -> << <<"SET_INSTRUMENT">> >>
                [] stmt.kind = "RestStatement" -> << <<"REST">> >>)
             \o Played(Tail(statements), table_duration)

PlayedOf(instr) ==
    IF instr.opcode \in {"PLAY_NOTE", "PLAY_CHORD"}
    THEN <<instr.opcode, instr.operands>> ELSE <<instr.opcode>>

\* C15: a PlayStatement with notes n1..nk gives k consecutive PLAY_NOTE in
\* note order, a ChordStatement one PLAY_CHORD holding all its notes; the
\* duration operand is the statement's own duration when it has one and the
\* table's 'duration' otherwise. A statement that reaches the generator with
\* a duration has a positive one.
C15_PlayOperands ==
    /\ Validated =>
          \A k \in 1..Len(ProgramStatements) :
              LET stmt == ProgramStatements[k]
              IN  stmt.kind \in {"PlayStatement", "ChordStatement"} =>
                      (stmt.duration # <<>> => stmt.duration[1] > 0)
    /\ InStages("generate") =>
          [ k \in 1..(Len(instructions) - 5) |-> PlayedOf(instructions[k + 4]) ]
              = Played(compiler.ast[1].statements,
                       compiler.symbol_table[1]["duration"].value)

\* 'PLAY C4,E4 DURATION=2;' then 'CHORD[C4,E4,G4];' has been generated
C15_Witness ==
    /\ InStages("generate")
    /\ Len(instructions) = 8
    /\ PlayedOf(instructions[5]) = <<"PLAY_NOTE", <<<<"C", "4">>, 2 * Scale>>>>
    /\ PlayedOf(instructions[6]) = <<"PLAY_NOTE", <<<<"E", "4">>, 2 * Scale>>>>
    /\ PlayedOf(instructions[7]) =
          <<"PLAY_CHORD", << << <<"C", "4">>, <<"E", "4">>, <<"G", "4">> >>, Scale>>>>

\* ---- C16: the positions of the tokens
\* the positions of the text at which a token starts, in order, the position
\* past the end standing for EOF
RECURSIVE TokenStartsFrom(_, _)
TokenStartsFrom(txt, p) ==
    IF p > Len(txt) THEN <<p>>
    ELSE LET k == FirstPattern(txt, p)
         IN  IF k = 0 THEN <<>>
             ELSE (IF token_patterns[k].type # "None" THEN <<p>> ELSE <<>>)
                     \o TokenStartsFrom(txt, MatchEnd(token_patterns[k], txt, p))

TokenStarts == TokenStartsFrom(text, 1)

\* a STRING token that holds a line break
HasMultilineString(tokens) ==
    \E k \in 1..Len(tokens) :
        tokens[k].type = "STRING" /\ CountNewlines(tokens[k].value) > 0

\* C16: when tokenize succeeds the list ends with exactly one EOF token and
\* every token carries the 1-based line and column of its first character:
\* line = 1 + the newlines before it, column = 1 + the characters since the
\* last newline, whatever comments, blanks and string literals precede it.
C16_TokenPositions ==
    lexer.status = "done" =>
        /\ Len(lexer.tokens) = Len(TokenStarts)
        /\ lexer.tokens[Len(lexer.tokens)].type = "EOF"
        /\ \A k \in 1..(Len(lexer.tokens) - 1) : lexer.tokens[k].type # "EOF"
        /\ \A k \in 1..Len(lexer.tokens) :
              /\ lexer.tokens[k].line = LineOf(text, TokenStarts[k])
              /\ lexer.tokens[k].column = ColumnOf(text, TokenStarts[k])

\* the part of C16 the code keeps: one token per match that emits, the only
\* EOF last, and the positions right as long as no string literal holds a
\* line break
C16_PositionsWithoutMultilineString ==
    lexer.status = "done" =>
        /\ Len(lexer.tokens) = Len(TokenStarts)
        /\ lexer.tokens[Len(lexer.tokens)].type = "EOF"
        /\ \A k \in 1..(Len(lexer.tokens) - 1) : lexer.tokens[k].type # "EOF"
        /\ ~HasMultilineString(lexer.tokens) =>
              \A k \in 1..Len(lexer.tokens) :
                  /\ lexer.tokens[k].line = LineOf(text, TokenStarts[k])
                  /\ lexer.tokens[k].column = ColumnOf(text, TokenStarts[k])

\* ---- C17: line breaks and blanks
\* the line breaks inside the string literals of a token list
RECURSIVE StringNewlines(_)
StringNewlines(tokens) ==
    IF tokens = <<>> THEN 0
    ELSE (IF Head(tokens).type = "STRING" THEN CountNewlines(Head(tokens).value) ELSE 0)
            + StringNewlines(Tail(tokens))

NewlineTokens(tokens) ==
    Cardinality({ k \in 1..Len(tokens) : tokens[k].type = "NEWLINE" })

\* C17: every newline of the source outside comments and string literals is
\* emitted as one NEWLINE token, in source order, also when blanks directly
\* precede it; no other whitespace character produces a token.
C17_NewlineTokens ==
    lexer.status = "done" =>
        /\ NewlineTokens(lexer.tokens) =
              CountNewlines(text) - StringNewlines(lexer.tokens)
        /\ \A k \in 1..(Len(lexer.tokens) - 1) :
              /\ lexer.tokens[k].type = "NEWLINE" <=> text[TokenStarts[k]] = "\n"
              /\ text[TokenStarts[k]] \notin (SpaceChars \ {"\n"})

\* the part of C17 the code keeps: a NEWLINE token is a newline of the source,
\* blanks and tabs start no token, and no line break is emitted twice
C17_NewlineTokensAreNewlines ==
    lexer.status = "done" =>
        /\ NewlineTokens(lexer.tokens) <=
              CountNewlines(text) - StringNewlines(lexer.tokens)
        /\ \A k \in 1..(Len(lexer.tokens) - 1) :
              /\ lexer.tokens[k].type = "NEWLINE" <=> text[TokenStarts[k]] = "\n"
              /\ text[TokenStarts[k]] \notin (SpaceChars \ {"\n"})

\* ---- C18: the registers
MaxRegInstrs == 4

\* SET_TEMPO and SET_VOLUME with operands below, inside and above the range
\* of the register, a note, END
RegisterAlphabet ==
    { Instr("SET_TEMPO", <<t>>) : t \in {-1 * Scale, Scale \div 2, 90 * Scale, 301 * Scale} }
    \cup { Instr("SET_VOLUME", <<v>>) : v \in {-(Scale \div 2), (8 * Scale) \div 10,
                                                 (3 * Scale) \div 2} }
    \cup { Instr("PLAY_NOTE", <<NoteA4, 1 * Scale>>), Instr("END", <<>>) }

InitRegisters ==
    /\ instructions \in SeqsUpTo(RegisterAlphabet, MaxRegInstrs)
    /\ synth = SynthStart
    /\ text = <<>>
    /\ lexer = LexStart
    /\ compiler = NewCompiler
    /\ chord = NoChord
    /\ runs = <<>>

SpecRegisters == InitRegisters /\ [][NextSynth]_vars

\* C18: in every state synthesize reaches, whatever the operands of its
\* SET_TEMPO and SET_VOLUME instructions, tempo is in [1, 300] and volume in
\* [0, 1]; so are the registers every sound was made with.
C18_RegistersInRange ==
    /\ Scale <= synth.tempo /\ synth.tempo <= 300 * Scale
    /\ 0 <= synth.volume /\ synth.volume <= Scale
    /\ \A k \in 1..Len(synth.trace) :
          /\ Scale <= synth.trace[k][3] /\ synth.trace[k][3] <= 300 * Scale
          /\ 0 <= synth.trace[k][4] /\ synth.trace[k][4] <= Scale
    /\ \A k \in 1..Len(synth.audio_data) :
          0 <= synth.audio_data[k].volume /\ synth.audio_data[k].volume <= Scale

\* SET_TEMPO 301, SET_VOLUME -0.5, SET_TEMPO -1, SET_VOLUME 1.5 have run
C18_Witness ==
    /\ synth.status = "returned"
    /\ instructions = << Instr("SET_TEMPO", <<301 * Scale>>),
                         Instr("SET_VOLUME", <<-(Scale \div 2)>>),
                         Instr("SET_TEMPO", <<-1 * Scale>>),
                         Instr("SET_VOLUME", <<(3 * Scale) \div 2>>) >>
    /\ synth.trace[1][3] = 300 * Scale
    /\ synth.trace[2][4] = 0
    /\ synth.tempo = Scale
    /\ synth.volume = Scale

\* ---- C19: END
\* a step of synthesize at or after an END
EndStep ==
    /\ (synth.status = "loop" /\ synth.i <= Len(instructions)
           /\ instructions[synth.i].opcode = "END") =>
          synth' = [synth EXCEPT !.status = "break"]
    /\ synth.status = "break" => synth' = [synth EXCEPT !.status = "returned"]
    /\ synth.status = "returned" => synth' = synth
    /\ \A k \in 1..(synth'.i - 1) : instructions[k].opcode # "END"

\* C19: when synthesize reaches an END it leaves the loop at once, with no
\* buffer appended and no register or frame changed, and returns the buffers
\* appended so far; no instruction placed after an END is ever reached, also
\* when the END is in a repeat body or frames are still open.
C19_EndStopsAtOnce == [][EndStep]_vars

\* REPEAT 2 { note, END, note }: returned at the END during the first pass,
\* with the frame still open and one buffer
C19_Witness ==
    /\ synth.status = "returned"
    /\ instructions = << Instr("REPEAT_START", <<2 * Scale>>),
                         Instr("PLAY_NOTE", <<NoteA4, 1 * Scale>>),
                         Instr("END", <<>>),
                         Instr("PLAY_NOTE", <<NoteA4, 1 * Scale>>),
                         Instr("REPEAT_END", <<>>) >>
    /\ synth.i = 3
    /\ Len(synth.repeat_stack) = 1
    /\ Len(synth.audio_data) = 1

\* ---- C20: the silence of an unknown note
\* note names the frequency table does not hold
UnknownNotes == { <<"E", "#", "4">>, <<"C", "b", "4">> }
SilenceDurations == { 1, 2, 25, 100, 400 }

\* a tempo, then the same duration for an unknown note and for A4
InitSilence ==
    /\ \E t \in ToneTempos, d \in SilenceDurations, note \in UnknownNotes :
          instructions = << Instr("SET_TEMPO", <<t>>),
                            Instr("PLAY_NOTE", <<note, d>>),
                            Instr("PLAY_NOTE", <<NoteA4, d>>) >>
    /\ synth = SynthStart
    /\ text = <<>>
    /\ lexer = LexStart
    /\ compiler = NewCompiler
    /\ chord = NoChord
    /\ runs = <<>>

SpecSilence == InitSilence /\ [][NextSynth]_vars

\* C20: for a PLAY_NOTE whose note is absent from the frequency table a
\* zero-filled buffer is appended whose length is that of the tone buffer a
\* known note gets for the same duration and tempo (duration > 0, tempo in
\* [1,300]).
C20_SilenceMatchesTone ==
    synth.status = "returned" =>
        /\ Len(synth.audio_data) = 2
        /\ synth.audio_data[1].kind = "silence"
        /\ synth.audio_data[2].kind = "tone"
        /\ synth.audio_data[1].n = synth.audio_data[2].n

\* the part of C20 the code keeps: a zero-filled buffer is appended, of the
\* tone's length when duration * 60 / tempo is at least 0.01 and of
\* int(sample_rate * duration * 60 / tempo) samples, fewer than the tone's
\* int(sample_rate * 0.01), when it is less
C20_SilenceMatchesLongTone ==
    synth.status = "returned" =>
        LET d == instructions[2].operands[2]
        IN  /\ Len(synth.audio_data) = 2
            /\ synth.audio_data[1].kind = "silence"
            /\ synth.audio_data[1].volume = 0
            /\ synth.audio_data[2].kind = "tone"
            /\ IF d * 60 * Scale >= synth.tempo
               THEN synth.audio_data[1].n = synth.audio_data[2].n
               ELSE /\ synth.audio_data[1].n = FloorMulDiv(sample_rate * 60, d, synth.tempo)
                    /\ synth.audio_data[2].n = sample_rate \div 100
                    /\ synth.audio_data[1].n < synth.audio_data[2].n

\* ---- C21: the symbol table
\* the names and values the calls are made with: built-in names, a name with
\* no default, numbers for the numeric names, instrument names for the other
TableNames == {"tempo", "volume", "instrument", "x"}
TableTypes == {"default", "variable"}
TableValues(name) == IF name = "instrument" THEN {sine, square} ELSE {0, 90 * Scale}

\* a table of its own, just constructed
InitTable ==
    /\ compiler = [NewCompiler EXCEPT !.symbol_table = <<NewSymbolTable>>]
    /\ text = <<>>
    /\ lexer = LexStart
    /\ instructions = <<>>
    /\ synth = SynthStart
    /\ chord = NoChord
    /\ runs = <<>>

TableDefine ==
    /\ \E name \in TableNames, type \in TableTypes :
          \E value \in TableValues(name) :
              compiler' = [compiler EXCEPT !.symbol_table =
                              <<define(@[1], name, type, value)>>]
    /\ UNCHANGED <<text, lexer, instructions, synth, chord, runs>>

TableSetValue ==
    /\ \E name \in TableNames :
          \E value \in TableValues(name) :
              compiler' = [compiler EXCEPT !.symbol_table =
                              <<set_value(@[1], name, value)>>]
    /\ UNCHANGED <<text, lexer, instructions, synth, chord, runs>>

TableClear ==
    /\ compiler' = [compiler EXCEPT !.symbol_table = <<clear(@[1])>>]
    /\ UNCHANGED <<text, lexer, instructions, synth, chord, runs>>

NextTable == TableDefine \/ TableSetValue \/ TableClear

SpecTable == InitTable /\ [][NextTable]_vars

\* the four built-in names have entries with the values 120.0, 0.5, 'sine', 1.0
HoldsDefaults(symbols) ==
    /\ {"tempo", "volume", "instrument", "duration"} \subseteq DOMAIN symbols
    /\ symbols["tempo"].value = 120 * Scale
    /\ 2 * symbols["volume"].value = Scale
    /\ symbols["instrument"].value = <<"s", "i", "n", "e">>
    /\ symbols["duration"].value = Scale

\* get_value of a name with no entry gives the built-in default of the name
\* if it has one, else the fallback; of a name with an entry, the entry's value
GetValueFallsBack(symbols) ==
    \A name \in TableNames \cup {"duration", "y"}, fallback \in {0, 7} :
        IF name \in DOMAIN symbols
        THEN get_value(symbols, name, fallback) = symbols[name].value
        ELSE get_value(symbols, name, fallback) =
                (CASE name = "tempo" -> 120 * Scale
                   [] name = "volume" -> Scale \div 2
                   [] name = "duration" -> Scale
                   [] OTHER -> fallback)

\* C21: after construction and after any sequence of define, set_value and
\* clear the table has entries for 'tempo', 'volume', 'instrument' and
\* 'duration'; directly after construction and after every clear their values
\* are 120.0, 0.5, 'sine', 1.0; get_value of a name with no entry returns the
\* built-in default of the name if there is one, else the caller's fallback.
C21_TableKeepsDefaults ==
    /\ HoldsDefaults(compiler.symbol_table[1])
    /\ [](/\ {"tempo", "volume", "instrument", "duration"}
                \subseteq DOMAIN compiler.symbol_table[1]
          /\ GetValueFallsBack(compiler.symbol_table[1]))
    /\ [][TableClear =>
            /\ HoldsDefaults(compiler.symbol_table[1]')
            /\ DOMAIN compiler.symbol_table[1]' =
                  {"tempo", "volume", "instrument", "duration"}]_vars

\* tempo redefined as a variable, volume set, 'x' created by set_value
C21_Witness ==
    /\ compiler.symbol_table # <<>>
    /\ DOMAIN compiler.symbol_table[1] =
          {"tempo", "volume", "instrument", "duration", "x"}
    /\ compiler.symbol_table[1]["tempo"] = Symbol("variable", 0)
    /\ compiler.symbol_table[1]["volume"] = Symbol("default", 90 * Scale)
    /\ compiler.symbol_table[1]["x"] = Symbol("variable", 90 * Scale)

\* ---- C22: termination of synthesize on generated lists
SrcRepeat3 == <<"R", "E", "P", "E", "A", "T", " ", "3", "{">>

FragsLoops == {SrcRepeat2, SrcRepeat3, SrcRepeat1_9, SrcPlayC4, SrcPlayClose, SrcClose}

\* Phase 5, one pass of the loop of synthesize at a time
Phase5Exec ==
    /\ compiler.pc = "synthesize"
    /\ synth.status = "loop"
    /\ synth.i <= Len(instructions)
    /\ synth' = SynthStep(synth, instructions)
    /\ UNCHANGED <<text, lexer, compiler, instructions, chord, runs>>

\* the loop is left and synthesize returns to compile_string
Phase5Return ==
    /\ compiler.pc = "synthesize"
    /\ LoopLeft(synth, instructions)
    /\ synth' = SynthFinish(synth)
    /\ compiler' = synthesize_phase(compiler, synth')
    /\ UNCHANGED <<text, lexer, instructions, chord, runs>>

NextSteps ==
    Phase1 \/ Phase2 \/ Phase3 \/ Phase4 \/ Phase5Exec \/ Phase5Return \/ Phase6

\* synthesize is sequential code that keeps running once called: a pass of
\* its loop, and its return, are not put off for ever
SpecSteps ==
    /\ InitCompile(FragsLoops)
    /\ [][NextSteps]_vars
    /\ WF_vars(Phase5Exec)
    /\ WF_vars(Phase5Return)

\* C22: on every list generate produces from a validated program synthesize
\* terminates: the index reaches the final END and synthesize returns; every
\* REPEAT_START(n) body runs exactly n times per entry, inner loops from zero
\* again on each outer pass (what was executed is the unrolled run); the stack
\* never holds more frames than the loops are nested, and it is empty at END.
C22_SynthesizeTerminates ==
    /\ [](InStages("generate") =>
            /\ Len(synth.repeat_stack) <= MaxDepth(instructions, 0, 0)
            /\ synth.i <= Len(instructions)
            /\ synth.status \in {"break", "returned"} =>
                  /\ synth.i = Len(instructions)
                  /\ instructions[synth.i].opcode = "END"
                  /\ synth.repeat_stack = <<>>
                  /\ synth.trace =
                        RunSynthesize(SynthStart, Unroll(instructions)).trace)
    /\ (compiler.pc = "synthesize") ~> (synth.status = "returned")

\* REPEAT 2 { REPEAT 3 { PLAY C4; } }: six tones, then returned with the
\* stack empty
C22_Witness ==
    /\ InStages("generate")
    /\ MaxDepth(instructions, 0, 0) = 2
    /\ instructions[5].operands = <<2 * Scale>>
    /\ instructions[6].operands = <<3 * Scale>>
    /\ synth.status = "returned"
    /\ Len(synth.audio_data) = 6
    /\ synth.repeat_stack = <<>>

\* ---- C23: the outcome of parse
SrcSemicolon == <<";">>
SrcNewline == <<"\n">>
SrcPlayOnly == <<"P", "L", "A", "Y", " ">>

FragsParse ==
    {SrcPlayC4, SrcTempo90, SrcRepeat2, SrcClose, SrcSemicolon, SrcNewline, SrcPlayOnly}

SpecParse == InitCompile(FragsParse) /\ [][NextCompile]_vars

\* the token types a statement begins with, and the statement each gives
StatementOf ==
    [PLAY |-> "PlayStatement", TEMPO |-> "TempoStatement", VOLUME |-> "VolumeStatement",
     INSTRUMENT |-> "InstrumentStatement", CHORD |-> "ChordStatement",
     REST |-> "RestStatement", REPEAT |-> "RepeatStatement"]

\* for each top-level statement parsed before parse stops, the position of
\* its first token and the position parse is at after it
RECURSIVE TopSpans(_, _)
TopSpans(tokens, pos) ==
    LET q == skip_newlines(tokens, pos)
    IN  IF tokens[q].type = "EOF" THEN <<>>
        ELSE LET r == parse_statement(tokens, q)
             IN  IF r.ok THEN << <<q, r.pos>> >> \o TopSpans(tokens, r.pos) ELSE <<>>

\* where parse is after the statements of spans: past the newlines that follow
StopPos(tokens, spans) ==
    skip_newlines(tokens, IF spans = <<>> THEN 1 ELSE spans[Len(spans)][2])

\* C23: on a token list ending with EOF parse ends with a Program whose
\* statements are in source order, or with a ParseError carrying the first
\* offending token; the position never decreases, every parsed statement
\* consumes at least one token, and a token no statement begins with (a '}'
\* or ';' at top level) gives a ParseError and is not stepped over.
C23_ParseOutcome ==
    InStages("parse") =>
        LET tokens == lexer.tokens
            r == parse(tokens)
            spans == TopSpans(tokens, 1)
            stop == StopPos(tokens, spans)
        IN  /\ tokens[Len(tokens)].type = "EOF"
            /\ r.ok <=> compiler.ast = <<r.node>>
            /\ ~r.ok <=> (compiler.ast = <<>> /\ compiler.error = "ParseError")
            /\ \A k \in 1..Len(spans) : spans[k][1] < spans[k][2]
            /\ \A k \in 1..(Len(spans) - 1) : spans[k][2] <= spans[k + 1][1]
            /\ r.ok =>
                  /\ r.pos = Len(tokens)
                  /\ Len(r.node.statements) = Len(spans)
                  /\ \A k \in 1..Len(spans) :
                        r.node.statements[k].kind = StatementOf[tokens[spans[k][1]].type]
            /\ ~r.ok =>
                  /\ r.pos >= stop
                  /\ r.error.token = tokens[r.pos]
            /\ tokens[stop].type \notin (DOMAIN StatementOf \cup {"EOF"}) =>
                  /\ ~r.ok
                  /\ r.pos = stop
                  /\ r.error.message = "Unexpected token"

\* 'PLAY C4;', a line break, then ';': one statement parsed, ParseError at
\* the ';' of line 2
C23_Witness ==
    /\ InStages("parse")
    /\ text = (SrcPlayC4 \o SrcNewline) \o SrcSemicolon
    /\ compiler.error = "ParseError"
    /\ Len(TopSpans(lexer.tokens, 1)) = 1
    /\ parse(lexer.tokens).error.token = Token("SEMICOLON", <<";">>, 2, 1)

\* ---- C24: sounds that come before the directives
SrcRest1 == <<"R", "E", "S", "T", " ", "1", ";">>

FragsPreamble ==
    {SrcPlayC4, SrcChordMajor, SrcRest1, SrcTempo90, SrcTempoHalf, SrcVolume08, SrcPiano}

SpecPreamble == InitCompile(FragsPreamble) /\ [][NextCompile]_vars

IsSound(opcode) == opcode \in {"PLAY_NOTE", "PLAY_CHORD", "REST"}

\* the sounds synthesize made before any SET_TEMPO, SET_VOLUME or
\* SET_INSTRUMENT (opcode) other than the one of the preamble: the preamble is
\* the first three entries of the trace
EarlySounds(opcode) ==
    { k \in 4..Len(synth.trace) :
        /\ IsSound(synth.trace[k][1])
        /\ \A j \in 4..(k - 1) : synth.trace[j][1] # opcode }

\* C24: a PLAY, CHORD or REST that precedes every TEMPO directive of the
\* program is synthesized with the tempo register equal to the operand of the
\* program's last TEMPO directive (120 if there is none), and likewise for
\* volume and instrument.
C24_EarlySoundsUseLastDirective ==
    InStages("synthesize") =>
        /\ \A k \in EarlySounds("SET_TEMPO") :
              synth.trace[k][3] =
                 LastOperand(ProgramStatements, "TempoStatement", "bpm", 120 * Scale)
        /\ \A k \in EarlySounds("SET_VOLUME") :
              synth.trace[k][4] =
                 LastOperand(ProgramStatements, "VolumeStatement", "level", Scale \div 2)
        /\ \A k \in EarlySounds("SET_INSTRUMENT") :
              synth.trace[k][5] =
                 LastOperand(ProgramStatements, "InstrumentStatement", "name", sine)

\* the part of C24 the code keeps: the early sounds are made with the last
\* directive's volume and instrument, and with its tempo raised to 1 when it
\* is below 1
C24_EarlySoundsUseClampedTempo ==
    InStages("synthesize") =>
        /\ \A k \in EarlySounds("SET_TEMPO") :
              synth.trace[k][3] =
                 Max(Scale, LastOperand(ProgramStatements, "TempoStatement", "bpm",
                                        120 * Scale))
        /\ \A k \in EarlySounds("SET_VOLUME") :
              synth.trace[k][4] =
                 LastOperand(ProgramStatements, "VolumeStatement", "level", Scale \div 2)
        /\ \A k \in EarlySounds("SET_INSTRUMENT") :
              synth.trace[k][5] =
                 LastOperand(ProgramStatements, "InstrumentStatement", "name", sine)

====
